---- MODULE Spec2Model ----
(***************************************************************************)
(* A model of twitch-archive: the webhook event-subscription manager       *)
(* (src/src/eventsub), the per-channel supervisor (src/src/main.rs,        *)
(* listen and download), the credential broker (src/src/helix/auth.rs),    *)
(* the HLS ripper (src/src/hls.rs), the chat client (src/src/irc.rs), the  *)
(* file helpers (src/src/fs_utils.rs) and retry (src/src/retry.rs).        *)
(*                                                                         *)
(* Spec      the callback server, the platform that posts to it and the    *)
(*           supervisors that consume the subscriptions                    *)
(* FairSpec  Spec with the fairness the executor gives the supervisor      *)
(* AuthSpec  concurrent HelixAuth::send_req calls against the platform     *)
(* HlsSpec   one download_media run: the playlist poller, the segment      *)
(*           pipeline and the rewritten playlist                           *)
(* ListenSpec    the listen tasks and the download task each spawns        *)
(* ChatSpec      the IRC task, the chat queues and the chat writers        *)
(* FairChatSpec  ChatSpec with the fairness the executor gives the tasks   *)
(* WipeSpec      eventsub::wipe against the platform's subscriptions       *)
(* FsSpec        concurrent create_dedup_file, create_dedup_dir, move_dir  *)
(* PollSpec      the playlist poller of download_media alone               *)
(* RetrySpec     one retry call and the invocations of its closure         *)
(* SelectSpec    hls::download: the choice among the master's alternatives *)
(***************************************************************************)
EXTENDS Integers, Sequences, FiniteSets, TLC

\* ------------------------------------------------------------------ bounds
MaxSubs == 2        \* subscriptions the platform creates in one run
MaxEvents == 2      \* notification requests the platform posts in one run
MaxInflight == 2    \* callback requests whose handlers run concurrently
NumShards == 2      \* shards of the DashMap index
NumChannels == 1    \* channels, one supervisor each
NumCallers == 2     \* tasks that call HelixAuth::send_req concurrently
MaxTokens == 2      \* bearer tokens the token endpoint issues after the first
NumSegs == 9        \* segments of the source stream of one download
MaxPolls == 3       \* media playlists one download fetches
MaxFaults == 1      \* segment requests of one download that do not end with 2xx
NumUsers == 2       \* users (channels) the program archives, a listen task each
MaxStreams == 2     \* stream.online events the subscriptions deliver in one run
MaxLeftover == 4    \* subscriptions the platform holds when the program starts
PageSize == 3       \* subscriptions in one page of the platform's list response
MaxSuffix == 1      \* suffixes the deduplication tries (65535 in fs_utils.rs)
MaxCount == 10      \* the largest count retry is called with

SubIds == 1..MaxSubs
Channels == 1..NumChannels
Callers == 1..NumCallers
Users == 1..NumUsers
\* the media_sequence and the length of the media playlists the source serves
MediaSequences == {0, 2, 5}
Lens == {0, 4}

\* ------------------------------------------------ eventsub: constants, types
MSG_NOTIFICATION == "notification"
MSG_VERIFICATION == "webhook_callback_verification"
MSG_REVOCATION == "revocation"
\* a Message-Type header with another value, and a request without the header
MSG_OTHER == "other"
MSG_MISSING == "missing"

SubStatus ==
    {"Enabled", "VerificationPending", "VerificationFailed",
     "NotificationFailuresExceeded", "AuthorizationRevoked",
     "ModeratorRemoved", "UserRemoved", "VersionRemoved"}

is_ok(s) == s = "Enabled" \/ s = "VerificationPending"

\* What the platform answers and posts (the environment of the program):
\* a webhook subscription is created in state verification-pending, a
\* revocation names the reason, a challenge is an arbitrary string.
CreateStatuses == {"VerificationPending"}
RevokeStatuses == {"AuthorizationRevoked", "NotificationFailuresExceeded"}
Challenges == {"abc", "xyz"}

\* The secret of subscription id is rand_hex(10), drawn per subscription;
\* the model names it by the subscription. Key 0 is any other key.
SecretOf(id) == id

\* The Message-Id, Message-Timestamp and Message-Signature headers of a
\* request: whether all three are present, the shape of the signature text
\* and the key the MAC in it was computed with over id, timestamp and body.
Sig(present, shape, key) == [present |-> present, shape |-> shape, key |-> key]
NoSig == Sig(FALSE, "hex", 0)
SigInputs(id) ==
    {Sig(TRUE, "hex", SecretOf(id)), Sig(TRUE, "hex", 0),
     Sig(FALSE, "hex", SecretOf(id)), Sig(TRUE, "short", SecretOf(id)),
     Sig(TRUE, "odd", SecretOf(id)), Sig(TRUE, "nonhex", SecretOf(id))}

\* An event payload: the n-th notification the platform posted, and whether
\* its JSON deserialises as the subscription's event type.
Event(n, wf) == [n |-> n, wf |-> wf]
NoEvent == Event(0, FALSE)

Request(type, id, sig, ev, challenge, rstatus, pc) ==
    [type |-> type, id |-> id, sig |-> sig, ev |-> ev,
     challenge |-> challenge, rstatus |-> rstatus, pc |-> pc]

\* A response: its status code and its body.
Response(code, body) == [code |-> code, body |-> body]
NoResponse == Response(0, "")

\* A supervisor: its position in listen, the subscription it holds (0: none),
\* the status the create response carried, and what recv() returned last.
Sup(pc, sub, cstatus, res) ==
    [pc |-> pc, sub |-> sub, cstatus |-> cstatus, res |-> res]

VARIABLES
    nextId,     \* subscriptions the platform has created so far
    index,      \* the keys of the DashMap
    status,     \* the Arc<Atomic<SubStatus>> of each subscription, shared by
                \* the index entry and the consumer's handle
    queue,      \* the unbounded channel of each subscription
    reqs,       \* the callback requests whose handlers have not returned
    nposted,    \* notifications posted so far
    last,       \* the response the server sent last
    enq,        \* history: the events of the notifications answered 200, in
                \* the order of the answers
    received,   \* history: the events recv() took from each queue, in order
    sup,        \* each channel's supervisor: position, subscription, result
    mutex,      \* the broker's Mutex: 0 or the caller holding it
    bearer,     \* the broker's stored token (and its expiry)
    issued,     \* tokens the token endpoint has issued after construction
    call,       \* each caller's send_req invocation
    titles,     \* the titles of the segments of the source stream
    hpc,        \* the playlist poller's position
    pos,        \* the poller's cursor
    polls,      \* media playlists fetched so far
    seqs,       \* history: the media_sequence of each playlist fetched
    chan,       \* the segments sent to the poller's channel and not taken yet
    closed,     \* whether every Sender of the channel is gone
    emitted,    \* history: the segments sent to the channel, in order
    armed,      \* whether skip_while has let a segment through
    count,      \* the next number enumerate() gives
    inflight,   \* the segment futures buffered() holds, oldest first
    playlist,   \* the segment records written to the rewritten playlist
    endlist,    \* the end markers written to the rewritten playlist
    files,      \* the segment files on disk: number and what they hold
    dl,         \* download_media: its position, then its result
    listener,   \* each user's listen task: its position, the get_streams count
    task,       \* each user's download task: its position and results
    pollers,    \* each user's playlist poller tasks that have not ended
    nevents,    \* stream.online events the subscriptions have delivered
    irc,        \* the IRC task: its position, try_count, the message at hand
    writer,     \* each user's chat_log task
    is_open,    \* each user's open-flag, shared by IrcSend and IrcRecv
    qlen,       \* the messages in each user's chat queue
    remote,     \* the subscriptions the platform holds for the credentials
    wp,         \* wipe: its position, what it listed, the deletes it awaits
    disk,       \* the paths that exist, and who created each
    content,    \* the files in each directory of the destination
    fsc,        \* each caller's file-system operation
    rt,         \* one call of retry: its arguments, position and result
    hd          \* one call of hls::download: its inputs, choice and result

esVars == <<nextId, index, status, queue, reqs, nposted, last, enq, received, sup>>
authVars == <<mutex, bearer, issued, call>>
hlsVars == <<titles, hpc, pos, polls, seqs, chan, closed, emitted, armed, count,
             inflight, playlist, endlist, files, dl>>
lsnVars == <<listener, task, pollers, nevents>>
chatVars == <<irc, writer, is_open, qlen>>
wipeVars == <<remote, wp>>
fsVars == <<disk, content, fsc>>
baseVars == <<esVars, authVars, hlsVars>>
utilVars == <<rt, hd>>
extVars == <<lsnVars, chatVars, wipeVars, fsVars, utilVars>>
vars == <<baseVars, extVars>>

\* ------------------------------------------------------ eventsub: helpers
\* verify_msg: the three headers, the "sha256=" prefix cut off at byte 7,
\* the hex decoding, and the MAC comparison, in the order of the code.
verify_msg(secret, rq) ==
    IF ~rq.sig.present THEN FALSE
    ELSE IF rq.sig.shape = "short" THEN FALSE
    ELSE IF rq.sig.shape = "odd" THEN FALSE
    ELSE IF rq.sig.shape = "nonhex" THEN FALSE
    ELSE rq.sig.key = secret

\* The DashMap shard of a key, and whether a handler holds a read guard on
\* the shard across steps (a writer waits until no reader is left).
ShardOf(id) == id % NumShards
ShardHeld(s) ==
    \E rq \in reqs : rq.pc = "blocked" /\ ShardOf(rq.id) = s

\* The Sender of a subscription's channel lives in its index entry; the
\* Receiver lives in the Subscription handle the supervisor holds.
SenderAlive(id) == id \in index
ReceiverAlive(id) ==
    \E ch \in Channels : sup[ch].sub = id /\ sup[ch].pc # "insert"

\* What one run of a handler does, from the state it starts in: its response
\* (NoResponse while it has not returned), the index, the status cells and
\* the queues it leaves, and how it goes on (cont: the request in its next
\* position, or nothing once it has returned).
Outcome(resp, idx, st, q, cont) ==
    [resp |-> resp, index |-> idx, status |-> st, queue |-> q, cont |-> cont]
Answer(code, body) == Outcome(Response(code, body), index, status, queue, {})

\* The server takes one more request.
Accepts == Cardinality(reqs) < MaxInflight

\* -------------------------------------------- eventsub: the callback handler
\* MSG_NOTIFICATION that lets every status through that is_ok accepts
callback_notification_is_ok(rq) ==
    IF rq.id \notin index THEN Answer(404, "")
    ELSE IF ~verify_msg(SecretOf(rq.id), rq) THEN Answer(401, "")
    ELSE IF ~is_ok(status[rq.id]) THEN Answer(409, status[rq.id])
    ELSE IF ReceiverAlive(rq.id)
    THEN Outcome(Response(200, ""), index, status,
                 [queue EXCEPT ![rq.id] = Append(@, rq.ev)], {})
    ELSE Outcome(NoResponse, index, status, queue,
                 {[rq EXCEPT !.pc = "blocked"]})

\* MSG_NOTIFICATION: get() takes a read guard on the entry, which the handler
\* keeps to the end of the arm; a failed send calls remove() under it.
callback_notification(rq) ==
    IF rq.id \notin index THEN Answer(404, "")
    ELSE IF ~verify_msg(SecretOf(rq.id), rq) THEN Answer(401, "")
    ELSE IF status[rq.id] # "Enabled" THEN Answer(409, status[rq.id])
    ELSE IF ReceiverAlive(rq.id)
    THEN Outcome(Response(200, ""), index, status,
                 [queue EXCEPT ![rq.id] = Append(@, rq.ev)], {})
    ELSE \* remove() wants the shard's write lock while this handler still
         \* holds its read guard: it never returns
         Outcome(NoResponse, index, status, queue,
                 {[rq EXCEPT !.pc = "blocked"]})

\* MSG_VERIFICATION with a load in the place of compare_exchange
callback_verification_load(rq) ==
    IF rq.id \notin index THEN Answer(404, "")
    ELSE IF ~verify_msg(SecretOf(rq.id), rq) THEN Answer(401, "")
    ELSE IF status[rq.id] = "VerificationPending" THEN Answer(200, rq.challenge)
    ELSE Answer(409, status[rq.id])

\* MSG_VERIFICATION
callback_verification(rq) ==
    IF rq.id \notin index THEN Answer(404, "")
    ELSE IF ~verify_msg(SecretOf(rq.id), rq) THEN Answer(401, "")
    ELSE IF status[rq.id] = "VerificationPending"
    THEN Outcome(Response(200, rq.challenge), index,
                 [status EXCEPT ![rq.id] = "Enabled"], queue, {})
    ELSE Answer(409, status[rq.id])

\* MSG_REVOCATION with get() in the place of remove(): the entry stays
callback_revocation_get(rq) ==
    IF rq.id \notin index THEN Answer(404, "")
    ELSE Outcome(NoResponse, index, status, queue, {[rq EXCEPT !.pc = "removed"]})

\* MSG_REVOCATION that answers 200 where no entry is found
callback_revocation_lenient(rq) ==
    IF rq.id \notin index THEN Answer(200, "")
    ELSE Outcome(NoResponse, index \ {rq.id}, status, queue,
                 {[rq EXCEPT !.pc = "removed"]})

\* MSG_REVOCATION, line 186: remove() under the shard's write lock; the
\* removed entry's Sender is dropped at the end of this statement.
callback_revocation_remove(rq) ==
    IF rq.id \notin index THEN Answer(404, "")
    ELSE Outcome(NoResponse, index \ {rq.id}, status, queue,
                 {[rq EXCEPT !.pc = "removed"]})

\* MSG_REVOCATION, lines 191-197: verify_msg, then status.swap
callback_revocation_swap(rq) ==
    IF ~verify_msg(SecretOf(rq.id), rq) THEN Answer(401, "")
    ELSE Outcome(Response(200, ""), index,
                 [status EXCEPT ![rq.id] = rq.rstatus], queue, {})

\* a missing Message-Type header, or any other value of it
callback_unknown(rq) == Answer(400, "")

\* The handler of rq, from the position rq.pc to its next suspension or to
\* its response.
callback(rq) ==
    IF rq.type = MSG_NOTIFICATION THEN callback_notification(rq)
    ELSE IF rq.type = MSG_VERIFICATION THEN callback_verification(rq)
    ELSE IF rq.type = MSG_REVOCATION
    THEN IF rq.pc = "removed" THEN callback_revocation_swap(rq)
         ELSE callback_revocation_remove(rq)
    ELSE callback_unknown(rq)

\* A writer of the shard of rq waits while a read guard is held on it.
MayRun(rq) ==
    (rq.type = MSG_REVOCATION /\ rq.pc = "posted") => ~ShardHeld(ShardOf(rq.id))

\* One step of the handler of rq.
Handle(rq) ==
    /\ MayRun(rq)
    /\ last' = IF callback(rq).resp = NoResponse THEN last ELSE callback(rq).resp
    /\ index' = callback(rq).index
    /\ status' = callback(rq).status
    /\ queue' = callback(rq).queue
    /\ enq' = IF rq.type = MSG_NOTIFICATION /\ callback(rq).resp = Response(200, "")
              THEN [enq EXCEPT ![rq.id] = Append(@, rq.ev)]
              ELSE enq
    /\ reqs' = (reqs \ {rq}) \cup callback(rq).cont
    /\ UNCHANGED <<nextId, nposted, received, sup, authVars, hlsVars, extVars>>

\* ------------------------------------------------- eventsub: the platform
\* The platform posts its next notification; the request is in flight until
\* a handler task picks it up.
PostNotification(id, wf) ==
    /\ Accepts
    /\ nposted < MaxEvents
    /\ nposted' = nposted + 1
    /\ reqs' = reqs \cup
           {Request(MSG_NOTIFICATION, id, Sig(TRUE, "hex", SecretOf(id)),
                    Event(nposted + 1, wf), "", "", "posted")}
    /\ UNCHANGED <<nextId, index, status, queue, last, enq, received, sup, authVars, hlsVars, extVars>>

\* The handler of a posted notification runs.
HandleNotification(rq) ==
    /\ rq \in reqs
    /\ rq.type = MSG_NOTIFICATION
    /\ rq.pc = "posted"
    /\ Handle(rq)

Verification(id, challenge) ==
    /\ Accepts
    /\ Handle(Request(MSG_VERIFICATION, id, Sig(TRUE, "hex", SecretOf(id)),
                      NoEvent, challenge, "", "posted"))

Revocation(id, st) ==
    /\ Accepts
    /\ Handle(Request(MSG_REVOCATION, id, Sig(TRUE, "hex", SecretOf(id)),
                      NoEvent, "", st, "posted"))

\* The second half of a revocation handler (of the platform's request or of
\* a forged one).
RevocationSwap(rq) ==
    /\ rq \in reqs
    /\ rq.type = MSG_REVOCATION
    /\ rq.pc = "removed"
    /\ Handle(rq)

\* ---------------------------------------- eventsub: requests of other origin
\* A request of one of the three types that is not signed with the
\* subscription's secret: whoever sends it knows the id, not the secret.
Forged(type, id, sig) ==
    Request(type, id, sig, NoEvent,
            IF type = MSG_VERIFICATION THEN "abc" ELSE "",
            IF type = MSG_REVOCATION THEN "AuthorizationRevoked" ELSE "", "posted")
ForgedRequest(type, id, sig) ==
    /\ Accepts
    /\ ~verify_msg(SecretOf(id), Forged(type, id, sig))
    /\ Handle(Forged(type, id, sig))

UnknownType(type) ==
    /\ Accepts
    /\ Handle(Request(type, 0, NoSig, NoEvent, "", "", "posted"))

\* ------------------------------------------------ supervisor: listen
\* subscribe(), up to the response of the create request: the platform
\* creates the subscription and answers with its id and status, or fails.
SubscribeRequest(ch, st) ==
    /\ sup[ch].pc = "subscribe"
    /\ nextId < MaxSubs
    /\ nextId' = nextId + 1
    /\ sup' = [sup EXCEPT ![ch] = Sup("insert", nextId + 1, st, sup[ch].res)]
    /\ UNCHANGED <<index, status, queue, reqs, nposted, last, enq, received, authVars, hlsVars, extVars>>

SubscribeFail(ch) ==
    /\ sup[ch].pc = "subscribe"
    /\ sup' = [sup EXCEPT ![ch] = Sup("exited", 0, "", "")]
    /\ UNCHANGED <<nextId, index, status, queue, reqs, nposted, last, enq, received, authVars, hlsVars, extVars>>

\* subscribe(), lines 307-321: the channel, the handle with its status cell,
\* and the insert under the shard's write lock.
SubscribeInsert(ch) ==
    /\ sup[ch].pc = "insert"
    /\ ~ShardHeld(ShardOf(sup[ch].sub))
    /\ index' = index \cup {sup[ch].sub}
    /\ status' = [status EXCEPT ![sup[ch].sub] = sup[ch].cstatus]
    /\ queue' = [queue EXCEPT ![sup[ch].sub] = <<>>]
    /\ sup' = [sup EXCEPT ![ch] = Sup("recv", sup[ch].sub, "", "")]
    /\ UNCHANGED <<nextId, reqs, nposted, last, enq, received, authVars, hlsVars, extVars>>

\* Subscription::recv, line 112, and listen's Ok(None) arm: break, which
\* drops the handle before the next subscribe.
RecvStatus(ch) ==
    /\ sup[ch].pc = "recv"
    /\ IF ~is_ok(status[sup[ch].sub])
       THEN sup' = [sup EXCEPT ![ch] = Sup("subscribe", 0, "", "None")]
       ELSE sup' = [sup EXCEPT ![ch] = Sup("waiting", sup[ch].sub, "", "")]
    /\ UNCHANGED <<nextId, index, status, queue, reqs, nposted, last, enq, received, authVars, hlsVars, extVars>>

\* rx.recv() taking the newest event of the queue
RecvEvent_newest(ch) ==
    /\ sup[ch].pc = "waiting"
    /\ queue[sup[ch].sub] # <<>>
    /\ queue' = [queue EXCEPT ![sup[ch].sub] = SubSeq(@, 1, Len(@) - 1)]
    /\ received' = [received EXCEPT ![sup[ch].sub] =
                        Append(@, queue[sup[ch].sub][Len(queue[sup[ch].sub])])]
    /\ sup' = [sup EXCEPT ![ch] = Sup("fetch", sup[ch].sub, "", "Some")]
    /\ UNCHANGED <<nextId, index, status, reqs, nposted, last, enq, authVars, hlsVars, extVars>>

\* Subscription::recv, lines 116-121: rx.recv() returns the oldest event of
\* the queue, which is then parsed.
RecvEvent(ch) ==
    /\ sup[ch].pc = "waiting"
    /\ queue[sup[ch].sub] # <<>>
    /\ queue' = [queue EXCEPT ![sup[ch].sub] = Tail(@)]
    /\ received' = [received EXCEPT ![sup[ch].sub] = Append(@, Head(queue[sup[ch].sub]))]
    /\ IF Head(queue[sup[ch].sub]).wf
       THEN sup' = [sup EXCEPT ![ch] = Sup("fetch", sup[ch].sub, "", "Some")]
       ELSE sup' = [sup EXCEPT ![ch] = Sup("subscribe", 0, "", "ParseError")]
    /\ UNCHANGED <<nextId, index, status, reqs, nposted, last, enq, authVars, hlsVars, extVars>>

\* rx.recv() failing, with listen going round its loop again
RecvClosed_continue(ch) ==
    /\ sup[ch].pc = "waiting"
    /\ queue[sup[ch].sub] = <<>>
    /\ ~SenderAlive(sup[ch].sub)
    /\ sup' = [sup EXCEPT ![ch] = Sup("recv", sup[ch].sub, "", "ChannelClosed")]
    /\ UNCHANGED <<nextId, index, status, queue, reqs, nposted, last, enq, received, authVars, hlsVars, extVars>>

\* rx.recv() fails once the queue is empty and its Sender is gone: listen
\* logs the error and breaks.
RecvClosed(ch) ==
    /\ sup[ch].pc = "waiting"
    /\ queue[sup[ch].sub] = <<>>
    /\ ~SenderAlive(sup[ch].sub)
    /\ sup' = [sup EXCEPT ![ch] = Sup("subscribe", 0, "", "ChannelClosed")]
    /\ UNCHANGED <<nextId, index, status, queue, reqs, nposted, last, enq, received, authVars, hlsVars, extVars>>

\* listen, lines 474-510: the stream record is found, or it is still absent
\* after the last poll, or the request fails.
FetchStream(ch, found) ==
    /\ sup[ch].pc = "fetch"
    /\ sup' = [sup EXCEPT ![ch].pc = IF found THEN "download" ELSE "recv"]
    /\ UNCHANGED <<nextId, index, status, queue, reqs, nposted, last, enq, received, authVars, hlsVars, extVars>>

\* listen, lines 512-526: the download task ends (or could not be spawned).
DownloadDone(ch) ==
    /\ sup[ch].pc = "download"
    /\ sup' = [sup EXCEPT ![ch].pc = "recv"]
    /\ UNCHANGED <<nextId, index, status, queue, reqs, nposted, last, enq, received, authVars, hlsVars, extVars>>

\* ------------------------------------------------ helix: HelixAuth::send_req
\* One invocation of send_req: its position, the request it was given, the
\* Authorization header _send attached last, the requests it has sent (each
\* with the header it carried), the token requests it has issued, the status
\* of the first response, and what it returned.
Call(pc, req, auth, sent, tokreqs, first, ret) ==
    [pc |-> pc, req |-> req, auth |-> auth, sent |-> sent,
     tokreqs |-> tokreqs, first |-> first, ret |-> ret]
Reqs == {"get", "post"}
\* What the platform answers a request: a status, or the transfer fails.
Statuses == {"2xx", "401", "other", "error"}

\* line 148-149: send_req keeps a clone of the request and enters _send
send_req(c, r) ==
    /\ call[c].pc = "idle"
    /\ call' = [call EXCEPT ![c] = Call("lock", r, 0, <<>>, 0, "", "")]
    /\ UNCHANGED <<mutex, bearer, issued, esVars, hlsVars, extVars>>

\* _send with refresh = false that fetches a new token before it attaches
\* the headers, as it would if it looked at has_expired
send_attach_expired(c) ==
    /\ call[c].pc = "lock"
    /\ mutex = 0
    /\ issued < MaxTokens
    /\ issued' = issued + 1
    /\ bearer' = issued + 1
    /\ call' = [call EXCEPT ![c].pc = "send", ![c].auth = issued + 1]
    /\ UNCHANGED <<mutex, esVars, hlsVars, extVars>>

\* _send with refresh = false, lines 132-141: nothing suspends between lock
\* and drop(lock), so the headers are attached in one step
send_attach(c) ==
    /\ call[c].pc = "lock"
    /\ mutex = 0
    /\ call' = [call EXCEPT ![c].pc = "send", ![c].auth = bearer]
    /\ UNCHANGED <<mutex, bearer, issued, esVars, hlsVars, extVars>>

\* _send with refresh = true, line 132
send_lock(c) ==
    /\ call[c].pc = "relock"
    /\ mutex = 0
    /\ mutex' = c
    /\ call' = [call EXCEPT ![c].pc = "refresh"]
    /\ UNCHANGED <<bearer, issued, esVars, hlsVars, extVars>>

\* _send with refresh = true that stores the new bearer and attaches the
\* header it had attached before
refresh_stale(c, ok) ==
    /\ call[c].pc = "refresh"
    /\ mutex = c
    /\ mutex' = 0
    /\ IF ok
       THEN /\ issued < MaxTokens
            /\ issued' = issued + 1
            /\ bearer' = issued + 1
            /\ call' = [call EXCEPT ![c].pc = "resend", ![c].tokreqs = @ + 1]
       ELSE /\ call' = [call EXCEPT ![c].pc = "idle", ![c].tokreqs = @ + 1,
                                    ![c].ret = "Err(token)"]
            /\ UNCHANGED <<bearer, issued>>
    /\ UNCHANGED <<esVars, hlsVars, extVars>>

\* _send with refresh = true, lines 135-141: Inner::refresh posts to the
\* token endpoint while the lock is held; on success it stores the new
\* bearer, which is attached before the lock is dropped; on failure `?`
\* returns the error, which drops the lock.
refresh(c, ok) ==
    /\ call[c].pc = "refresh"
    /\ mutex = c
    /\ mutex' = 0
    /\ IF ok
       THEN /\ issued < MaxTokens
            /\ issued' = issued + 1
            /\ bearer' = issued + 1
            /\ call' = [call EXCEPT ![c].pc = "resend", ![c].auth = issued + 1,
                                    ![c].tokreqs = @ + 1]
       ELSE /\ call' = [call EXCEPT ![c].pc = "idle", ![c].tokreqs = @ + 1,
                                    ![c].ret = "Err(token)"]
            /\ UNCHANGED <<bearer, issued>>
    /\ UNCHANGED <<esVars, hlsVars, extVars>>

\* line 144 of the first _send and lines 149-155: the request is sent and the
\* response matched
send(c, st) ==
    /\ call[c].pc = "send"
    /\ call' = [call EXCEPT
           ![c].sent = Append(@, [req |-> call[c].req, auth |-> call[c].auth]),
           ![c].first = st,
           ![c].pc = IF st = "401" THEN "relock" ELSE "idle",
           ![c].ret = IF st = "401" THEN ""
                      ELSE IF st = "2xx" THEN "Ok(2xx)"
                      ELSE IF st = "error" THEN "Err(transfer)"
                      ELSE "Err(status)"]
    /\ UNCHANGED <<mutex, bearer, issued, esVars, hlsVars, extVars>>

\* line 144 of the second _send and line 158: its result is what send_req
\* returns
resend(c, st) ==
    /\ call[c].pc = "resend"
    /\ call' = [call EXCEPT
           ![c].sent = Append(@, [req |-> call[c].req, auth |-> call[c].auth]),
           ![c].pc = "idle",
           ![c].ret = IF st = "error" THEN "Err(transfer)"
                      ELSE IF st = "2xx" THEN "Ok(2xx)"
                      ELSE IF st = "401" THEN "Ok(401)"
                      ELSE "Ok(other)"]
    /\ UNCHANGED <<mutex, bearer, issued, esVars, hlsVars, extVars>>

\* ------------------------------------------------------- hls: the ripper
\* buffered(6), and the width of the number in a segment's file name
BUFFERED == 6
WIDTH == 5

\* A segment of the source stream: its absolute index there, and its
\* discontinuity flag. Its title is the source stream's.
Segment(idx, disc) == [idx |-> idx, disc |-> disc]
TitleOf(seg) == titles[seg.idx + 1]
\* The source streams: a segment's title starts with "Amazon", or with
\* something else, or the segment has none.
TitlePatterns ==
    {[n \in 1..NumSegs |-> IF n <= 2 THEN "Amazon" ELSE "live"],
     [n \in 1..NumSegs |-> IF n = 1 THEN "none"
                           ELSE IF n \in {2, 5} THEN "Amazon" ELSE "live"]}

\* A media playlist: media_sequence, its segments (a window of the source
\* stream) and end_list.
MediaPlaylist(ms, len, end) ==
    [media_sequence |-> ms,
     segments |-> [n \in 1..len |-> Segment(ms + n - 1, FALSE)],
     end_list |-> end]
Playlists ==
    {MediaPlaylist(ms, len, end) :
        ms \in MediaSequences, len \in Lens, end \in BOOLEAN}

\* What a GET ends with after retry()'s attempts: a response with a status,
\* or a failed transfer.
HttpResults == {"2xx", "4xx", "5xx", "error"}
\* get / get2, lines 22-68: only a failed transfer and a client error (4xx)
\* are errors; every other response is Ok
get(st) == IF st = "error" \/ st = "4xx" THEN "Err" ELSE "Ok"

\* fetch_media, lines 119-133: get2, then the body is parsed. The body of a
\* 2xx response is the playlist; the body of a server error is not one.
MediaResponses ==
    {[st |-> "2xx", media |-> pl] : pl \in Playlists}
    \cup {[st |-> st, media |-> MediaPlaylist(0, 0, FALSE)] : st \in {"4xx", "5xx", "error"}}
fetch_media(r) ==
    IF get(r.st) = "Err" THEN "Err"
    ELSE IF r.st # "2xx" THEN "Err"
    ELSE "Ok"

\* The tail of a sequence after its first n elements (Iterator::skip).
Skip(q, n) == IF n >= Len(q) THEN <<>> ELSE SubSeq(q, n + 1, Len(q))

\* spawn_downloader, lines 135-157, called by download_media at line 241
\* after it has created the playlist file and the segment directory: the
\* first playlist is fetched and all its segments are sent.
spawn_downloader(r, t) ==
    /\ dl = "start"
    /\ polls' = polls + 1
    /\ IF fetch_media(r) = "Err"
       THEN /\ dl' = "Err"
            /\ hpc' = "failed"
            /\ closed' = TRUE
            /\ UNCHANGED <<titles, pos, seqs, chan, emitted>>
       ELSE /\ titles' = t
            /\ dl' = "run"
            /\ seqs' = <<r.media.media_sequence>>
            /\ chan' = r.media.segments
            /\ emitted' = r.media.segments
            /\ pos' = r.media.media_sequence + Len(r.media.segments)
            /\ closed' = r.media.end_list
            /\ hpc' = IF r.media.end_list THEN "stopped" ELSE "poll"
    /\ UNCHANGED <<armed, count, inflight, playlist, endlist, files, esVars, authVars, extVars>>

\* The polling loop without the discontinuity mark
NewSegments_unmarked(media) ==
    IF media.media_sequence > pos
    THEN media.segments
    ELSE Skip(media.segments, pos - media.media_sequence)

\* The segments one iteration of the polling loop sends, lines 170-196.
NewSegments(media) ==
    IF media.media_sequence > pos
    THEN [media.segments EXCEPT ![1].disc = TRUE]
    ELSE Skip(media.segments, pos - media.media_sequence)

\* One iteration of the polling loop, lines 165-209. A send fails once
\* download_media has returned and dropped the Receiver.
poll(r) ==
    /\ hpc = "poll"
    /\ polls < MaxPolls
    /\ polls' = polls + 1
    /\ IF fetch_media(r) = "Err"
       THEN /\ hpc' = "failed"
            /\ closed' = TRUE
            /\ UNCHANGED <<pos, seqs, chan, emitted>>
       ELSE /\ seqs' = Append(seqs, r.media.media_sequence)
            /\ IF r.media.segments = <<>>
               THEN UNCHANGED <<hpc, closed, pos, chan, emitted>>
               ELSE IF NewSegments(r.media) # <<>> /\ dl \in {"Ok", "Err"}
               THEN /\ hpc' = "unsent"
                    /\ closed' = TRUE
                    /\ UNCHANGED <<pos, chan, emitted>>
               ELSE /\ chan' = chan \o NewSegments(r.media)
                    /\ emitted' = emitted \o NewSegments(r.media)
                    /\ pos' = r.media.media_sequence + Len(r.media.segments)
                    /\ closed' = r.media.end_list
                    /\ hpc' = IF r.media.end_list THEN "stopped" ELSE "poll"
    /\ UNCHANGED <<titles, armed, count, inflight, playlist, endlist, files, dl,
                   esVars, authVars, extVars>>

\* The number of a segment file, written {i:05}: at least WIDTH digits.
RECURSIVE Digits(_)
Digits(i) == IF i < 10 THEN <<i>> ELSE Append(Digits(i \div 10), i % 10)
RECURSIVE Pad(_, _)
Pad(d, w) == IF Len(d) >= w THEN d ELSE Pad(<<0>> \o d, w)
Uri(i) == [dir |-> "stream_name", name |-> Pad(Digits(i), WIDTH), ext |-> "ts"]

\* A segment future of the pipeline: the number enumerate() gave it, its
\* segment, and how far it is.
Future(i, seg, st) == [i |-> i, seg |-> seg, st |-> st]

\* the pipeline without the limit of buffered()
take_unbounded ==
    /\ dl = "run"
    /\ chan # <<>>
    /\ chan' = Tail(chan)
    /\ IF ~armed /\ TitleOf(Head(chan)) = "Amazon"
       THEN UNCHANGED <<armed, count, inflight>>
       ELSE /\ armed' = TRUE
            /\ count' = count + 1
            /\ inflight' = Append(inflight, Future(count, Head(chan), "fetching"))
    /\ UNCHANGED <<titles, hpc, pos, polls, seqs, closed, emitted, playlist, endlist,
                   files, dl, esVars, authVars, extVars>>

\* the pipeline numbering a segment by its index in the source stream
take_absolute ==
    /\ dl = "run"
    /\ Len(inflight) < BUFFERED
    /\ chan # <<>>
    /\ chan' = Tail(chan)
    /\ IF ~armed /\ TitleOf(Head(chan)) = "Amazon"
       THEN UNCHANGED <<armed, count, inflight>>
       ELSE /\ armed' = TRUE
            /\ count' = count + 1
            /\ inflight' = Append(inflight, Future(Head(chan).idx, Head(chan), "fetching"))
    /\ UNCHANGED <<titles, hpc, pos, polls, seqs, closed, emitted, playlist, endlist,
                   files, dl, esVars, authVars, extVars>>

\* the pipeline with enumerate() before skip_while()
take_enumerate_first ==
    /\ dl = "run"
    /\ Len(inflight) < BUFFERED
    /\ chan # <<>>
    /\ chan' = Tail(chan)
    /\ count' = count + 1
    /\ IF ~armed /\ TitleOf(Head(chan)) = "Amazon"
       THEN UNCHANGED <<armed, inflight>>
       ELSE /\ armed' = TRUE
            /\ inflight' = Append(inflight, Future(count, Head(chan), "fetching"))
    /\ UNCHANGED <<titles, hpc, pos, polls, seqs, closed, emitted, playlist, endlist,
                   files, dl, esVars, authVars, extVars>>

\* the pipeline with filter() in the place of skip_while()
take_filter ==
    /\ dl = "run"
    /\ Len(inflight) < BUFFERED
    /\ chan # <<>>
    /\ chan' = Tail(chan)
    /\ IF TitleOf(Head(chan)) = "Amazon"
       THEN UNCHANGED <<armed, count, inflight>>
       ELSE /\ armed' = TRUE
            /\ count' = count + 1
            /\ inflight' = Append(inflight, Future(count, Head(chan), "fetching"))
    /\ UNCHANGED <<titles, hpc, pos, polls, seqs, closed, emitted, playlist, endlist,
                   files, dl, esVars, authVars, extVars>>

\* download_media, lines 245-250 and 274: buffered() has room and pulls the
\* next segment through skip_while and enumerate
take ==
    /\ dl = "run"
    /\ Len(inflight) < BUFFERED
    /\ chan # <<>>
    /\ chan' = Tail(chan)
    /\ IF ~armed /\ TitleOf(Head(chan)) = "Amazon"
       THEN UNCHANGED <<armed, count, inflight>>
       ELSE /\ armed' = TRUE
            /\ count' = count + 1
            /\ inflight' = Append(inflight, Future(count, Head(chan), "fetching"))
    /\ UNCHANGED <<titles, hpc, pos, polls, seqs, closed, emitted, playlist, endlist,
                   files, dl, esVars, authVars, extVars>>

\* What the request and the file operations of one segment end with: a
\* response by its status, a failed transfer, or a failed copy to the file.
SegmentResults == HttpResults \cup {"io"}

\* The segment requests of this download that did not end with 2xx.
Faults ==
    Cardinality({f \in files : f.holds # "2xx"})
    + Cardinality({k \in 1..Len(inflight) : inflight[k].st = "Err"})

\* download_media, lines 252-272: one segment future runs to its end
fetch_segment(k, res) ==
    /\ dl = "run"
    /\ k \in 1..Len(inflight)
    /\ inflight[k].st = "fetching"
    /\ res # "2xx" => Faults < MaxFaults
    /\ IF res # "io" /\ get(res) = "Err"
       THEN /\ inflight' = [inflight EXCEPT ![k].st = "Err"]
            /\ UNCHANGED files
       ELSE IF res = "io"
       THEN /\ inflight' = [inflight EXCEPT ![k].st = "Err"]
            /\ files' = files \cup {[uri |-> Uri(inflight[k].i), holds |-> "partial"]}
       ELSE /\ inflight' = [inflight EXCEPT ![k].st = "Ok"]
            /\ files' = files \cup {[uri |-> Uri(inflight[k].i), holds |-> res]}
    /\ UNCHANGED <<titles, hpc, pos, polls, seqs, chan, closed, emitted, armed, count,
                   playlist, endlist, dl, esVars, authVars, extVars>>

\* download_media, lines 291-293: the oldest future has ended; its segment
\* is written to the playlist, or its error returned
write_segment ==
    /\ dl = "run"
    /\ inflight # <<>>
    /\ Head(inflight).st # "fetching"
    /\ IF Head(inflight).st = "Ok"
       THEN /\ playlist' = Append(playlist, [uri |-> Uri(Head(inflight).i),
                                             seg |-> Head(inflight).seg])
            /\ inflight' = Tail(inflight)
            /\ UNCHANGED dl
       ELSE /\ dl' = "Err"
            /\ inflight' = <<>>
            /\ UNCHANGED playlist
    /\ UNCHANGED <<titles, hpc, pos, polls, seqs, chan, closed, emitted, armed, count,
                   endlist, files, esVars, authVars, extVars>>

\* download_media, lines 291-297: the channel is closed and drained, the
\* stream ends, and finish() writes the end marker
finish ==
    /\ dl = "run"
    /\ inflight = <<>>
    /\ chan = <<>>
    /\ closed
    /\ endlist' = endlist + 1
    /\ dl' = "Ok"
    /\ UNCHANGED <<titles, hpc, pos, polls, seqs, chan, closed, emitted, armed, count,
                   inflight, playlist, files, esVars, authVars, extVars>>

\* download_media, lines 276-297: no segment for 300 seconds; take_while
\* ends the stream, the futures in flight are dropped, finish() runs
stall ==
    /\ dl = "run"
    /\ IF inflight = <<>> THEN TRUE ELSE Head(inflight).st = "fetching"
    /\ inflight' = <<>>
    /\ endlist' = endlist + 1
    /\ dl' = "Ok"
    /\ UNCHANGED <<titles, hpc, pos, polls, seqs, chan, closed, emitted, armed, count,
                   playlist, files, esVars, authVars, extVars>>

\* ------------------------------------------------------------ specification
\* --------------------------------------------- main: listen and download
\* line 497 of main.rs: the get_streams attempts per event
GET_STREAMS_TRIES == 12

\* A listen task: its position and the count of the 'get_streams loop.
Listener(pc, n) == [pc |-> pc, count |-> n]
\* A download task: its position, whether the playlist poller it spawned is
\* still running, the result of _stream and the result of download.
Task(pc, polling, res, ret) ==
    [pc |-> pc, poll |-> polling, res |-> res, ret |-> ret]
NoTask == Task("none", FALSE, "", "")

\* The one-shot cancellation of a user's chat writer: sent by _dl at line
\* 284, while the download task waits for the writer.
NotiSent(u) == task[u].pc = "await"
\* Every IrcSend is dropped with the map when the IRC task ends.
SendersAlive == irc.pc \notin {"stopped", "exhausted"}

\* lines 445-454: subscribe; an error ends this listen task
listen_subscribe(u, ok) ==
    /\ listener[u].pc = "subscribe"
    /\ listener' = [listener EXCEPT ![u].pc = IF ok THEN "recv" ELSE "returned"]
    /\ UNCHANGED <<task, pollers, nevents, baseVars, utilVars, chatVars, wipeVars, fsVars>>

\* lines 459-471: recv() yields an event, or None (the subscription was
\* revoked), or an error; the last two leave the receive loop
listen_recv(u, res) ==
    /\ listener[u].pc = "recv"
    /\ IF res = "Some"
       THEN /\ nevents < MaxStreams
            /\ nevents' = nevents + 1
            /\ listener' = [listener EXCEPT ![u].pc = "get_streams", ![u].count = 0]
       ELSE /\ listener' = [listener EXCEPT ![u].pc = "subscribe"]
            /\ UNCHANGED nevents
    /\ UNCHANGED <<task, pollers, baseVars, utilVars, chatVars, wipeVars, fsVars>>

\* a fetch loop that gives up after the thirteenth empty answer
listen_get_streams_thirteen(u, res) ==
    /\ listener[u].pc = "get_streams"
    /\ listener' =
         IF res = "Some" THEN [listener EXCEPT ![u].pc = "spawn"]
         ELSE IF res = "None"
         THEN IF listener[u].count + 1 > GET_STREAMS_TRIES
              THEN [listener EXCEPT ![u].pc = "recv", ![u].count = @ + 1]
              ELSE [listener EXCEPT ![u].count = @ + 1]
         ELSE [listener EXCEPT ![u].pc = "recv"]
    /\ UNCHANGED <<task, pollers, nevents, baseVars, utilVars, chatVars, wipeVars, fsVars>>

\* lines 474-509: one get_streams request of the 'get_streams loop
listen_get_streams(u, res) ==
    /\ listener[u].pc = "get_streams"
    /\ listener' =
         IF res = "Some" THEN [listener EXCEPT ![u].pc = "spawn"]
         ELSE IF res = "None"
         THEN IF listener[u].count + 1 >= GET_STREAMS_TRIES
              THEN [listener EXCEPT ![u].pc = "recv", ![u].count = @ + 1]
              ELSE [listener EXCEPT ![u].count = @ + 1]
         ELSE [listener EXCEPT ![u].pc = "recv"]
    /\ UNCHANGED <<task, pollers, nevents, baseVars, utilVars, chatVars, wipeVars, fsVars>>

\* lines 512-521: the download task is spawned, or the spawn fails
listen_spawn(u, ok) ==
    /\ listener[u].pc = "spawn"
    /\ IF ok
       THEN /\ listener' = [listener EXCEPT ![u].pc = "join"]
            /\ task' = [task EXCEPT ![u] = Task("tmpdir", FALSE, "", "")]
       ELSE /\ listener' = [listener EXCEPT ![u].pc = "recv"]
            /\ UNCHANGED task
    /\ UNCHANGED <<pollers, nevents, baseVars, utilVars, chatVars, wipeVars, fsVars>>

\* a listen task that returns when the download has failed
listen_join_fatal(u) ==
    /\ listener[u].pc = "join"
    /\ task[u].pc = "end"
    /\ listener' = [listener EXCEPT
           ![u].pc = IF task[u].ret = "Err" THEN "returned" ELSE "recv"]
    /\ task' = [task EXCEPT ![u] = NoTask]
    /\ UNCHANGED <<pollers, nevents, baseVars, utilVars, chatVars, wipeVars, fsVars>>

\* lines 523-525: the task is awaited, its error is logged
listen_join(u) ==
    /\ listener[u].pc = "join"
    /\ task[u].pc = "end"
    /\ listener' = [listener EXCEPT ![u].pc = "recv"]
    /\ task' = [task EXCEPT ![u] = NoTask]
    /\ UNCHANGED <<pollers, nevents, baseVars, utilVars, chatVars, wipeVars, fsVars>>

\* download, lines 397-406: the temporary download directory
download_tmpdir(u, ok) ==
    /\ task[u].pc = "tmpdir"
    /\ task' = IF ok THEN [task EXCEPT ![u].pc = "chat"]
               ELSE [task EXCEPT ![u].pc = "end", ![u].ret = "Err"]
    /\ UNCHANGED <<listener, pollers, nevents, baseVars, utilVars, chatVars, wipeVars, fsVars>>

\* _dl, lines 276-281: the chat writer is spawned on this thread
dl_chat(u, ok) ==
    /\ task[u].pc = "chat"
    /\ IF ok
       THEN /\ task' = [task EXCEPT ![u].pc = "stream"]
            /\ writer' = [writer EXCEPT ![u] = "start"]
       ELSE /\ task' = [task EXCEPT ![u].pc = "finalize", ![u].res = "Err"]
            /\ UNCHANGED writer
    /\ UNCHANGED <<listener, pollers, nevents, irc, is_open, qlen, baseVars, utilVars, wipeVars, fsVars>>

\* _stream, lines 246-268, up to the return of hls::spawn_downloader: the
\* playlist url is found and the first media playlist fetched, which spawns
\* the poller, or there is no matching quality, or a request fails
dl_stream(u, res) ==
    /\ task[u].pc = "stream"
    /\ task' = IF res = "run" THEN [task EXCEPT ![u].pc = "hls", ![u].poll = TRUE]
               ELSE [task EXCEPT ![u].pc = "notify", ![u].res = res]
    /\ UNCHANGED <<listener, pollers, nevents, baseVars, utilVars, chatVars, wipeVars, fsVars>>

\* hls.rs 200-204 and 167: the poller of the running download ends, at an
\* end_list or at a failed playlist request, and its Sender is dropped
poller_stop(u) ==
    /\ task[u].pc = "hls"
    /\ task[u].poll
    /\ task' = [task EXCEPT ![u].poll = FALSE]
    /\ UNCHANGED <<listener, pollers, nevents, baseVars, utilVars, chatVars, wipeVars, fsVars>>

\* hls.rs 291-297: download_media returns, at the end of the channel (the
\* poller has ended), at a failed segment or at the 300 s timeout; the poller
\* was spawned detached (hls.rs 214-216) and runs on if it has not ended
dl_hls(u, how) ==
    /\ task[u].pc = "hls"
    /\ how = "eos" => ~task[u].poll
    /\ task' = [task EXCEPT ![u].pc = "notify", ![u].poll = FALSE,
                            ![u].res = IF how = "segment" THEN "Err" ELSE "Some"]
    /\ pollers' = [pollers EXCEPT ![u] = IF task[u].poll THEN @ + 1 ELSE @]
    /\ UNCHANGED <<listener, nevents, baseVars, utilVars, chatVars, wipeVars, fsVars>>

\* hls.rs 195 and 167: a poller whose download has returned ends when a
\* send or a playlist request fails
poller_exit(u) ==
    /\ pollers[u] > 0
    /\ pollers' = [pollers EXCEPT ![u] = @ - 1]
    /\ UNCHANGED <<listener, task, nevents, baseVars, utilVars, chatVars, wipeVars, fsVars>>

\* _dl, lines 284-285: the cancellation is sent; the send fails when the
\* writer has returned and dropped the receiver, and `?` drops the handle
dl_notify(u) ==
    /\ task[u].pc = "notify"
    /\ IF writer[u] \in {"Ok", "Err"}
       THEN /\ task' = [task EXCEPT ![u].pc = "finalize", ![u].res = "Err"]
            /\ writer' = [writer EXCEPT ![u] = "none"]
       ELSE /\ task' = [task EXCEPT ![u].pc = "await"]
            /\ UNCHANGED writer
    /\ UNCHANGED <<listener, pollers, nevents, irc, is_open, qlen, baseVars, utilVars, wipeVars, fsVars>>

\* _dl, line 286: the writer is joined; its error goes before the stream's
dl_await(u) ==
    /\ task[u].pc = "await"
    /\ writer[u] \in {"Ok", "Err"}
    /\ task' = [task EXCEPT ![u].pc = "finalize",
                            ![u].res = IF writer[u] = "Err" THEN "Err" ELSE @]
    /\ writer' = [writer EXCEPT ![u] = "none"]
    /\ UNCHANGED <<listener, pollers, nevents, irc, is_open, qlen, baseVars, utilVars, wipeVars, fsVars>>

\* download, lines 408-434: the directory is removed, or the data file is
\* written and the directory moved (which returns its own result) or put
\* into a tar archive (which returns the download's error first)
download_finalize(u, to_dir, ok) ==
    /\ task[u].pc = "finalize"
    /\ task' = [task EXCEPT ![u].pc = "end",
           ![u].ret = IF ~ok THEN "Err"
                      ELSE IF task[u].res = "Err" /\ ~to_dir THEN "Err"
                      ELSE "Ok"]
    /\ UNCHANGED <<listener, pollers, nevents, baseVars, utilVars, chatVars, wipeVars, fsVars>>

\* ------------------------------------------------- irc and the chat writer
\* line 9 of irc.rs, and the last try_count that enters the loop (line 250)
CHANNEL_BOUND == 16
MAX_TRY_COUNT == 10

\* The IRC task: its position, try_count (u8), and the user whose sender it
\* has found open and is about to send to.
Irc(pc, try_count, to) == [pc |-> pc, try_count |-> try_count, to |-> to]

\* main.rs 151-162: IrcRecv::open (a compare_exchange from false to true),
\* then the log file is opened for appending
chat_open(u, ok) ==
    /\ writer[u] = "start"
    /\ IF is_open[u]
       THEN /\ writer' = [writer EXCEPT ![u] = "Err"]
            /\ UNCHANGED is_open
       ELSE /\ is_open' = [is_open EXCEPT ![u] = TRUE]
            /\ writer' = [writer EXCEPT ![u] = IF ok THEN "loop" ELSE "Err"]
    /\ UNCHANGED <<irc, qlen, baseVars, utilVars, lsnVars, wipeVars, fsVars>>

\* main.rs 164-178: one turn of the writer's loop. select polls recv() first
\* and the cancellation only when recv() is pending: a queued message is
\* taken and written; a closed and empty queue is an error; otherwise, with
\* the cancellation sent, the file is flushed and the flag reset.
chat_step(u, ok) ==
    /\ writer[u] = "loop"
    /\ IF qlen[u] > 0
       THEN /\ qlen' = [qlen EXCEPT ![u] = @ - 1]
            /\ writer' = [writer EXCEPT ![u] = IF ok THEN "loop" ELSE "Err"]
            /\ UNCHANGED is_open
       ELSE IF ~SendersAlive
       THEN /\ writer' = [writer EXCEPT ![u] = "Err"]
            /\ UNCHANGED <<is_open, qlen>>
       ELSE /\ NotiSent(u)
            /\ writer' = [writer EXCEPT ![u] = IF ok THEN "Ok" ELSE "Err"]
            /\ is_open' = [is_open EXCEPT ![u] = IF ok THEN FALSE ELSE @]
            /\ UNCHANGED qlen
    /\ UNCHANGED <<irc, baseVars, utilVars, lsnVars, wipeVars, fsVars>>

\* irc.rs 250-251: the loop condition and _connect
irc_connect(ok) ==
    /\ irc.pc = "connect"
    /\ irc' = IF ok THEN Irc("handle", 0, 0) ELSE [irc EXCEPT !.pc = "sleep"]
    /\ UNCHANGED <<writer, is_open, qlen, baseVars, utilVars, lsnVars, wipeVars, fsVars>>

\* irc.rs 269-272 and the loop condition at line 250
irc_sleep ==
    /\ irc.pc = "sleep"
    /\ irc' = [irc EXCEPT
           !.try_count = (@ + 1) % 256,
           !.pc = IF (irc.try_count + 1) % 256 <= MAX_TRY_COUNT
                  THEN "connect" ELSE "exhausted"]
    /\ UNCHANGED <<writer, is_open, qlen, baseVars, utilVars, lsnVars, wipeVars, fsVars>>

\* irc.rs 69-76 and 262-266: next_message fails, or yields Quit or Eof
irc_status(st) ==
    /\ irc.pc = "handle"
    /\ irc' = [irc EXCEPT !.pc = IF st = "Err" THEN "sleep" ELSE "stopped"]
    /\ UNCHANGED <<writer, is_open, qlen, baseVars, utilVars, lsnVars, wipeVars, fsVars>>

\* irc.rs 77-243 and 318-321: a message for the registered channel of u
\* arrives; try_send loads the open-flag and returns Ok(false) if it is false
irc_message(u) ==
    /\ irc.pc = "handle"
    /\ irc' = IF is_open[u] THEN [irc EXCEPT !.pc = "send", !.to = u] ELSE irc
    /\ UNCHANGED <<writer, is_open, qlen, baseVars, utilVars, lsnVars, wipeVars, fsVars>>

\* a sender that waits for room in the queue
try_send_blocking ==
    /\ irc.pc = "send"
    /\ qlen[irc.to] < CHANNEL_BOUND
    /\ qlen' = [qlen EXCEPT ![irc.to] = @ + 1]
    /\ irc' = [irc EXCEPT !.pc = "handle", !.to = 0]
    /\ UNCHANGED <<writer, is_open, baseVars, utilVars, lsnVars, wipeVars, fsVars>>

\* irc.rs 323: tx.try_send puts the message into the queue if it holds
\* fewer than CHANNEL_BOUND messages, else it fails and the message is lost
try_send ==
    /\ irc.pc = "send"
    /\ qlen' = [qlen EXCEPT ![irc.to] = IF @ < CHANNEL_BOUND THEN @ + 1 ELSE @]
    /\ irc' = [irc EXCEPT !.pc = "handle", !.to = 0]
    /\ UNCHANGED <<writer, is_open, baseVars, utilVars, lsnVars, wipeVars, fsVars>>

\* ----------------------------------------------------- eventsub: wipe
\* wipe: its position, the subscriptions get returned, and the deletes that
\* join_all still awaits.
Wipe(pc, listed, pending) == [pc |-> pc, listed |-> listed, pending |-> pending]

\* What the platform returns to one GET of the subscriptions endpoint: its
\* first page, at most PageSize subscriptions, and a cursor for the rest.
FirstPage(S) == {id \in S : Cardinality({j \in S : j < id}) < PageSize}

\* A subscription of an earlier run that the platform still holds when the
\* program starts.
leftover(id) ==
    /\ wp.pc = "start"
    /\ id \notin remote
    /\ remote' = remote \cup {id}
    /\ UNCHANGED <<wp, baseVars, utilVars, lsnVars, chatVars, fsVars>>

\* mod.rs 389 and 325-336: get sends one request and returns the data of
\* the response; its error is wipe's error
wipe_get(ok) ==
    /\ wp.pc = "start"
    /\ wp' = IF ok THEN Wipe("delete", FirstPage(remote), FirstPage(remote))
             ELSE Wipe("Err", {}, {})
    /\ UNCHANGED <<remote, baseVars, utilVars, lsnVars, chatVars, fsVars>>

\* mod.rs 338-368: one of the deletes ends; the platform has deleted the
\* subscription (2xx), or the request failed or was answered otherwise
delete(id, ok) ==
    /\ wp.pc = "delete"
    /\ id \in wp.pending
    /\ wp' = [wp EXCEPT !.pending = @ \ {id}]
    /\ remote' = IF ok THEN remote \ {id} ELSE remote
    /\ UNCHANGED <<baseVars, utilVars, lsnVars, chatVars, fsVars>>

\* mod.rs 389-390: join_all has collected the results, which are dropped
wipe_return ==
    /\ wp.pc = "delete"
    /\ wp.pending = {}
    /\ wp' = [wp EXCEPT !.pc = "Ok"]
    /\ UNCHANGED <<remote, baseVars, utilVars, lsnVars, chatVars, fsVars>>

\* ------------------------------------------------------------- fs_utils
\* The targets of the operations: a path whose parent is a directory of its
\* own ("nested", as in a/x), and a relative path of one component ("plain",
\* as in x), whose parent() is the empty path, which is never a directory.
Targets == {"nested", "plain"}
Kinds == {"file", "dir"}
\* The path of a target (i = 0) and its deduplicated names (-1, -2, ...).
Name(kind, t, i) == [kind |-> kind, t |-> t, i |-> i]
Names == {Name(k, t, i) : k \in Kinds, t \in Targets, i \in 0..MaxSuffix}
\* The parent directory of the nested targets.
Parent == Name("dir", "parent", 0)
Nodes == Names \cup {Parent}
\* The tasks that call the operations, each for a stream of its own.
Creators == {"t1", "t2"}
\* The file of a stream: its name and the stream (or what was there before).
File(name, owner) == [name |-> name, owner |-> owner]
\* The files of the working directory of the stream of caller c.
WorkDir(c) == {File("chat.log", c)}

\* An operation: create_dedup_file, create_dedup_dir or move_dir, its target,
\* the suffix it is trying, its position, the path the deduplication gave,
\* and its result ("Ok": it returned that path).
Op(op, t, i, pc, path, ret) ==
    [op |-> op, t |-> t, i |-> i, pc |-> pc, path |-> path, ret |-> ret]
NoOp == Op("", "plain", 0, "idle", Parent, "none")
KindOf(op) == IF op = "file" THEN "file" ELSE "dir"
Trying(c) == Name(KindOf(fsc[c].op), fsc[c].t, fsc[c].i)
\* Path::is_dir of the parent of a target
ParentIsDir(t) == t = "nested" /\ disk[Parent] # "none"
\* fs::create_dir_all(path): what is missing of the chain is created
MkdirAll(c, t, n) ==
    [x \in Nodes |->
        IF disk[x] # "none" THEN disk[x]
        ELSE IF x = n \/ (x = Parent /\ t = "nested") THEN c
        ELSE "none"]

\* Something that is there before the program starts: the parent directory,
\* or a target with one file in it if it is a directory.
exists(n) ==
    /\ \A c \in Creators : fsc[c].pc = "idle" /\ fsc[c].ret = "none"
    /\ disk[n] = "none"
    /\ n # Parent => (n.i = 0 /\ (n.t = "nested" => disk[Parent] # "none"))
    /\ disk' = [disk EXCEPT ![n] = "old"]
    /\ content' = IF n # Parent /\ n.kind = "dir"
                  THEN [content EXCEPT ![n] = {File("chat.log", "old")}]
                  ELSE content
    /\ UNCHANGED <<fsc, baseVars, utilVars, lsnVars, chatVars, wipeVars>>

\* A task calls create_dedup_file, create_dedup_dir or move_dir.
fs_call(c, op, t) ==
    /\ fsc[c].pc = "idle"
    /\ fsc[c].ret = "none"
    /\ fsc' = [fsc EXCEPT ![c] =
           Op(op, t, 0, IF op = "file" THEN "parent" ELSE "check", Parent, "none")]
    /\ UNCHANGED <<disk, content, baseVars, utilVars, lsnVars, chatVars, wipeVars>>

\* fs_utils.rs 39-41: create_dir_all of the parent
create_dir_all_parent(c) ==
    /\ fsc[c].pc = "parent"
    /\ disk' = IF fsc[c].t = "nested" /\ disk[Parent] = "none"
               THEN [disk EXCEPT ![Parent] = c] ELSE disk
    /\ fsc' = [fsc EXCEPT ![c].pc = "new"]
    /\ UNCHANGED <<content, baseVars, utilVars, lsnVars, chatVars, wipeVars>>

\* What create_dedup_file and create_dedup_dir do after a name was taken:
\* the next suffix, or the error after the last one (lines 47-57, 86-95).
NextName(c, pc) ==
    IF fsc[c].i < MaxSuffix
    THEN [fsc EXCEPT ![c].i = @ + 1, ![c].pc = pc]
    ELSE [fsc EXCEPT ![c].pc = "idle", ![c].ret = "Err"]
\* What they do after a name was created: create_dedup_file and
\* create_dedup_dir return it, move_dir goes on with it (line 290).
Created(c) ==
    IF fsc[c].op = "move"
    THEN [fsc EXCEPT ![c].pc = "rename", ![c].path = Trying(c)]
    ELSE [fsc EXCEPT ![c].pc = "idle", ![c].path = Trying(c), ![c].ret = "Ok"]

\* fs_utils.rs 17-33: create_new_file, the open with create_new
create_new_file(c) ==
    /\ fsc[c].pc = "new"
    /\ IF disk[Trying(c)] = "none"
       THEN /\ disk' = [disk EXCEPT ![Trying(c)] = c]
            /\ fsc' = Created(c)
       ELSE /\ fsc' = NextName(c, "new")
            /\ UNCHANGED disk
    /\ UNCHANGED <<content, baseVars, utilVars, lsnVars, chatVars, wipeVars>>

\* fs_utils.rs 63-64: create_new_dir looks whether the parent is a directory
create_new_dir(c) ==
    /\ fsc[c].pc = "check"
    /\ fsc' = [fsc EXCEPT ![c].pc = IF ParentIsDir(fsc[c].t) THEN "mk" ELSE "mk_all"]
    /\ UNCHANGED <<disk, content, baseVars, utilVars, lsnVars, chatVars, wipeVars>>

\* fs_utils.rs 65-66: the parent was not a directory: create_dir_all of the
\* path, which succeeds also when the path exists, and Ok(true)
create_dir_all(c) ==
    /\ fsc[c].pc = "mk_all"
    /\ disk' = MkdirAll(c, fsc[c].t, Trying(c))
    /\ fsc' = Created(c)
    /\ UNCHANGED <<content, baseVars, utilVars, lsnVars, chatVars, wipeVars>>

\* fs_utils.rs 70-76: create_dir, which fails when the path exists
create_dir(c) ==
    /\ fsc[c].pc = "mk"
    /\ IF disk[Trying(c)] = "none"
       THEN /\ disk' = [disk EXCEPT ![Trying(c)] = c]
            /\ fsc' = Created(c)
       ELSE /\ fsc' = NextName(c, "check")
            /\ UNCHANGED disk
    /\ UNCHANGED <<content, baseVars, utilVars, lsnVars, chatVars, wipeVars>>

\* The files of a directory after others were renamed into it: rename
\* replaces a file of the same name.
Renamed(old, new) ==
    {f \in old : \A g \in new : g.name # f.name} \cup new

\* main.rs 292-300: every entry of the working directory is renamed into
\* dest, the path move_dir was called with
move_dir_rename(c) ==
    /\ fsc[c].pc = "rename"
    /\ content' = [content EXCEPT ![Name("dir", fsc[c].t, 0)] = Renamed(@, WorkDir(c))]
    /\ fsc' = [fsc EXCEPT ![c].pc = "remove"]
    /\ UNCHANGED <<disk, baseVars, utilVars, lsnVars, chatVars, wipeVars>>

\* main.rs 302-304: the working directory is removed, dir is the result
move_dir_remove(c) ==
    /\ fsc[c].pc = "remove"
    /\ fsc' = [fsc EXCEPT ![c].pc = "idle", ![c].ret = "Ok"]
    /\ UNCHANGED <<disk, content, baseVars, utilVars, lsnVars, chatVars, wipeVars>>

\* ---------------------------------------------------------------- retry
\* hls.rs 43 and 67: the count get and get2 pass to retry
GET_TRIES == 10
\* the delays retry is called with: none (get, get2) and some
Delays == {0, 5}
\* the requests that go through get and get2
GetContexts == {"master playlist", "media playlist", "media segment"}

\* One call of retry: the count it was given (n), the count after line 15,
\* the delay, the context, the loop index, the results of the invocations
\* of f so far (TRUE: Ok), the time slept, and what it returned: whether Ok,
\* and the invocation whose result it is.
Retry(pc, n, cnt, delay, context, i, outs, slept, ret) ==
    [pc |-> pc, n |-> n, count |-> cnt, delay |-> delay, context |-> context,
     i |-> i, outs |-> outs, slept |-> slept, ret |-> ret]
NoRet == [ok |-> FALSE, by |-> 0]

\* retry whose loop runs count times before the last invocation
retry_inclusive(n, delay, context) ==
    /\ rt.pc = "idle"
    /\ rt' = Retry("loop", n, n, delay, context, 0, <<>>, 0, NoRet)
    /\ UNCHANGED <<hd, baseVars, lsnVars, chatVars, wipeVars, fsVars>>

\* retry.rs 14-15: count > 0 is asserted, then count - 1 shadows it
retry(n, delay, context) ==
    /\ rt.pc = "idle"
    /\ rt' = Retry("loop", n, n - 1, delay, context, 0, <<>>, 0, NoRet)
    /\ UNCHANGED <<hd, baseVars, lsnVars, chatVars, wipeVars, fsVars>>

\* hls.rs 22-43 and 45-68: get and get2 call retry with no delay
get_retry(context) ==
    /\ context \in GetContexts
    /\ retry(GET_TRIES, 0, context)

\* retry.rs 17-25: one iteration of the loop: Ok is returned, after an Err
\* the delay is slept
retry_f(ok) ==
    /\ rt.pc = "loop"
    /\ rt.i < rt.count
    /\ rt' = IF ok
             THEN [rt EXCEPT !.pc = "done", !.outs = Append(@, TRUE),
                             !.ret = [ok |-> TRUE, by |-> Len(rt.outs) + 1]]
             ELSE [rt EXCEPT !.outs = Append(@, FALSE), !.i = @ + 1,
                             !.slept = @ + rt.delay]
    /\ UNCHANGED <<hd, baseVars, lsnVars, chatVars, wipeVars, fsVars>>

\* retry.rs 27-31: the last invocation, whose result is returned as it is
retry_last(ok) ==
    /\ rt.pc = "loop"
    /\ rt.i >= rt.count
    /\ rt' = [rt EXCEPT !.pc = "done", !.outs = Append(@, ok),
                        !.ret = [ok |-> ok, by |-> Len(rt.outs) + 1]]
    /\ UNCHANGED <<hd, baseVars, lsnVars, chatVars, wipeVars, fsVars>>

\* ------------------------------------------- hls: the master playlist
\* Strings are sequences of characters. The tag "best", the other tags of a
\* format list (the empty one is what a stray comma leaves), and the names
\* of the alternatives of a master playlist.
BEST == <<"b", "e", "s", "t">>
Tags == {BEST, <<"7", "2", "0", "p">>, <<"7", "2", "0", "p", "6", "0">>, <<"1">>, <<>>}
AltNames ==
    {<<"7", "2", "0", "p", "6", "0">>, <<"7", "2", "0", "p">>,
     <<"1", "6", "0", "p">>, <<"a", "u", "d", "i", "o">>}
\* The format lists (split(',') yields at least one tag) and the lists of
\* alternatives, in the order of the playlist.
Formats == {<<a>> : a \in Tags} \cup {<<a, b>> : a, b \in Tags}
Alternatives == {<<>>} \cup {<<a>> : a \in AltNames} \cup {<<a, b>> : a, b \in AltNames}

\* str::starts_with
starts_with(s, f) == Len(f) <= Len(s) /\ SubSeq(s, 1, Len(f)) = f

\* Iterator::find over the alternatives from position i on: the position
\* of the first one whose name starts with f, 0 if there is none
RECURSIVE find(_, _, _)
find(alts, f, i) ==
    IF i > Len(alts) THEN 0
    ELSE IF starts_with(alts[i], f) THEN i
    ELSE find(alts, f, i + 1)

\* the closure that looks for names only, "best" being a prefix like others
Match_prefix(alts, f) == find(alts, f, 1)

\* hls.rs 326-331: the closure of find_map for one tag
Match(alts, f) ==
    IF f = BEST THEN (IF Len(alts) > 0 THEN 1 ELSE 0)
    ELSE find(alts, f, 1)

\* The choice: the position of the tag and of the alternative; none.
Choice(f, alt) == [f |-> f, alt |-> alt]
NoChoice == Choice(0, 0)

\* hls.rs 324-332: Iterator::find_map over the format list from position k
RECURSIVE find_map(_, _, _)
find_map(format, alts, k) ==
    IF k > Len(format) THEN NoChoice
    ELSE IF Match(alts, format[k]) # 0 THEN Choice(k, Match(alts, format[k]))
    ELSE find_map(format, alts, k + 1)

\* One call of hls::download: its position, the format list, the
\* alternatives of the master playlist, the choice, whether the playlist
\* file and the segment directory were created, and the result.
Download(pc, format, alts, sel, mediafile, segdir, ret) ==
    [pc |-> pc, format |-> format, alts |-> alts, sel |-> sel,
     mediafile |-> mediafile, segdir |-> segdir, ret |-> ret]

\* hls.rs 300-336: the master playlist is fetched and parsed, or that
\* fails; then the choice; Ok(None) if there is none
download(ok, format, alts) ==
    /\ hd.pc = "start"
    /\ hd' = IF ~ok THEN Download("done", format, <<>>, NoChoice, FALSE, FALSE,
                                   "Err(master)")
             ELSE IF find_map(format, alts, 1) = NoChoice
             THEN Download("done", format, alts, NoChoice, FALSE, FALSE, "None")
             ELSE Download("media", format, alts, find_map(format, alts, 1),
                           FALSE, FALSE, "")
    /\ UNCHANGED <<rt, baseVars, lsnVars, chatVars, wipeVars, fsVars>>

\* hls.rs 349-361 and download_media, 221-298: no uri is found for the
\* alternative; or the playlist file cannot be created; or it and the
\* segment directory are created and the download succeeds or fails
download_media(how) ==
    /\ hd.pc = "media"
    /\ hd' = [hd EXCEPT !.pc = "done",
                        !.mediafile = how \in {"Ok", "Err"},
                        !.segdir = how \in {"Ok", "Err"},
                        !.ret = IF how = "Ok" THEN "Some" ELSE "Err"]
    /\ UNCHANGED <<rt, baseVars, lsnVars, chatVars, wipeVars, fsVars>>

InitES ==
    /\ nextId = 0
    /\ index = {}
    /\ status = [id \in SubIds |-> "none"]
    /\ queue = [id \in SubIds |-> <<>>]
    /\ reqs = {}
    /\ nposted = 0
    /\ last = NoResponse
    /\ enq = [id \in SubIds |-> <<>>]
    /\ received = [id \in SubIds |-> <<>>]
    /\ sup = [ch \in Channels |-> Sup("subscribe", 0, "", "")]

IdleAuth ==
    /\ mutex = 0
    /\ bearer = 0
    /\ issued = 0
    /\ call = [c \in Callers |-> Call("idle", "get", 0, <<>>, 0, "", "")]

IdleHls ==
    /\ titles = <<>>
    /\ hpc = "first"
    /\ pos = 0
    /\ polls = 0
    /\ seqs = <<>>
    /\ chan = <<>>
    /\ closed = FALSE
    /\ emitted = <<>>
    /\ armed = FALSE
    /\ count = 0
    /\ inflight = <<>>
    /\ playlist = <<>>
    /\ endlist = 0
    /\ files = {}
    /\ dl = "start"

IdleListen ==
    /\ listener = [u \in Users |-> Listener("subscribe", 0)]
    /\ task = [u \in Users |-> NoTask]
    /\ pollers = [u \in Users |-> 0]
    /\ nevents = 0

IdleChat ==
    /\ irc = Irc("connect", 0, 0)
    /\ writer = [u \in Users |-> "none"]
    /\ is_open = [u \in Users |-> FALSE]
    /\ qlen = [u \in Users |-> 0]

IdleWipe ==
    /\ remote = {}
    /\ wp = Wipe("start", {}, {})

IdleFs ==
    /\ disk = [n \in Nodes |-> "none"]
    /\ content = [n \in Nodes |-> {}]
    /\ fsc = [c \in Creators |-> NoOp]

IdleUtil ==
    /\ rt = Retry("idle", 0, 0, 0, "", 0, <<>>, 0, NoRet)
    /\ hd = Download("start", <<>>, <<>>, NoChoice, FALSE, FALSE, "")

Init ==
    /\ InitES /\ IdleAuth /\ IdleHls /\ IdleListen /\ IdleChat /\ IdleWipe /\ IdleFs
    /\ IdleUtil

MsgTypes == {MSG_NOTIFICATION, MSG_VERIFICATION, MSG_REVOCATION}

\* The requests that can be in flight.
Requests ==
    {Request(MSG_NOTIFICATION, id, Sig(TRUE, "hex", SecretOf(id)), Event(n, wf), "", "", pc) :
        id \in SubIds, n \in 1..MaxEvents, wf \in BOOLEAN, pc \in {"posted", "blocked"}}
    \cup {Request(MSG_REVOCATION, id, Sig(TRUE, "hex", SecretOf(id)), NoEvent, "", st, "removed") :
        id \in SubIds, st \in RevokeStatuses}
    \cup UNION {{[Forged(MSG_REVOCATION, id, sig) EXCEPT !.pc = "removed"] :
        sig \in SigInputs(id)} : id \in SubIds}

Next ==
    \/ \E id \in SubIds, wf \in BOOLEAN : PostNotification(id, wf)
    \/ \E rq \in Requests : HandleNotification(rq)
    \/ \E id \in SubIds, c \in Challenges : Verification(id, c)
    \/ \E id \in SubIds, st \in RevokeStatuses : Revocation(id, st)
    \/ \E rq \in Requests : RevocationSwap(rq)
    \/ \E type \in MsgTypes, id \in SubIds : \E sig \in SigInputs(id) :
           ForgedRequest(type, id, sig)
    \/ \E type \in {MSG_OTHER, MSG_MISSING} : UnknownType(type)
    \/ \E ch \in Channels, st \in CreateStatuses : SubscribeRequest(ch, st)
    \/ \E ch \in Channels : SubscribeFail(ch)
    \/ \E ch \in Channels : SubscribeInsert(ch)
    \/ \E ch \in Channels : RecvStatus(ch)
    \/ \E ch \in Channels : RecvEvent(ch)
    \/ \E ch \in Channels : RecvClosed(ch)
    \/ \E ch \in Channels, found \in BOOLEAN : FetchStream(ch, found)
    \/ \E ch \in Channels : DownloadDone(ch)

Spec == Init /\ [][Next]_vars

AuthNext ==
    \/ \E c \in Callers, r \in Reqs : send_req(c, r)
    \/ \E c \in Callers : send_attach(c)
    \/ \E c \in Callers, st \in Statuses : send(c, st)
    \/ \E c \in Callers : send_lock(c)
    \/ \E c \in Callers, ok \in BOOLEAN : refresh(c, ok)
    \/ \E c \in Callers, st \in Statuses : resend(c, st)

AuthSpec == Init /\ [][AuthNext]_vars

HlsNext ==
    \/ \E r \in MediaResponses, t \in TitlePatterns : spawn_downloader(r, t)
    \/ \E r \in MediaResponses : poll(r)
    \/ take
    \/ \E k \in 1..BUFFERED, res \in SegmentResults : fetch_segment(k, res)
    \/ write_segment
    \/ finish
    \/ stall

HlsSpec == Init /\ [][HlsNext]_vars

\* The supervisors of the users, their download tasks and chat writers.
ListenNext ==
    \/ \E u \in Users, ok \in BOOLEAN : listen_subscribe(u, ok)
    \/ \E u \in Users, res \in {"Some", "None", "Err"} : listen_recv(u, res)
    \/ \E u \in Users, res \in {"Some", "None", "Err"} : listen_get_streams(u, res)
    \/ \E u \in Users, ok \in BOOLEAN : listen_spawn(u, ok)
    \/ \E u \in Users : listen_join(u)
    \/ \E u \in Users, ok \in BOOLEAN : download_tmpdir(u, ok)
    \/ \E u \in Users, ok \in BOOLEAN : dl_chat(u, ok)
    \/ \E u \in Users, res \in {"run", "None", "Err"} : dl_stream(u, res)
    \/ \E u \in Users : poller_stop(u)
    \/ \E u \in Users, how \in {"eos", "segment", "stall"} : dl_hls(u, how)
    \/ \E u \in Users : poller_exit(u)
    \/ \E u \in Users : dl_notify(u)
    \/ \E u \in Users : dl_await(u)
    \/ \E u \in Users, to_dir \in BOOLEAN, ok \in BOOLEAN : download_finalize(u, to_dir, ok)
    \/ \E u \in Users, ok \in BOOLEAN : chat_open(u, ok)
    \/ \E u \in Users, ok \in BOOLEAN : chat_step(u, ok)

ListenSpec == Init /\ [][ListenNext]_vars

\* The IRC task and the chat writers of the downloads the supervisors have
\* spawned: each user's download task is at the head of _dl.
ChatInit ==
    /\ InitES /\ IdleAuth /\ IdleHls /\ IdleWipe /\ IdleFs /\ IdleChat /\ IdleUtil
    /\ listener = [u \in Users |-> Listener("join", 0)]
    /\ task = [u \in Users |-> Task("chat", FALSE, "", "")]
    /\ pollers = [u \in Users |-> 0]
    /\ nevents = NumUsers

ChatNext ==
    \/ \E ok \in BOOLEAN : irc_connect(ok)
    \/ irc_sleep
    \/ \E st \in {"Err", "Quit", "Eof"} : irc_status(st)
    \/ \E u \in Users : irc_message(u)
    \/ try_send
    \/ \E u \in Users, ok \in BOOLEAN : dl_chat(u, ok)
    \/ \E u \in Users, res \in {"None", "Err"} : dl_stream(u, res)
    \/ \E u \in Users : dl_notify(u)
    \/ \E u \in Users : dl_await(u)
    \/ \E u \in Users, ok \in BOOLEAN : chat_open(u, ok)
    \/ \E u \in Users, ok \in BOOLEAN : chat_step(u, ok)

ChatSpec == ChatInit /\ [][ChatNext]_vars

WipeNext ==
    \/ \E id \in 1..MaxLeftover : leftover(id)
    \/ \E ok \in BOOLEAN : wipe_get(ok)
    \/ \E id \in 1..MaxLeftover, ok \in BOOLEAN : delete(id, ok)
    \/ wipe_return

WipeSpec == Init /\ [][WipeNext]_vars

FsNext ==
    \/ \E n \in Nodes : exists(n)
    \/ \E c \in Creators, op \in {"file", "dir", "move"}, t \in Targets : fs_call(c, op, t)
    \/ \E c \in Creators : create_dir_all_parent(c)
    \/ \E c \in Creators : create_new_file(c)
    \/ \E c \in Creators : create_new_dir(c)
    \/ \E c \in Creators : create_dir_all(c)
    \/ \E c \in Creators : create_dir(c)
    \/ \E c \in Creators : move_dir_rename(c)
    \/ \E c \in Creators : move_dir_remove(c)

FsSpec == Init /\ [][FsNext]_vars

RetryNext ==
    \/ \E n \in 1..MaxCount, d \in Delays : retry(n, d, "other")
    \/ \E c \in GetContexts : get_retry(c)
    \/ \E ok \in BOOLEAN : retry_f(ok)
    \/ \E ok \in BOOLEAN : retry_last(ok)

RetrySpec == Init /\ [][RetryNext]_vars

SelectNext ==
    \/ \E ok \in BOOLEAN, fm \in Formats, al \in Alternatives : download(ok, fm, al)
    \/ \E how \in {"no_uri", "Ok", "Err"} : download_media(how)

SelectSpec == Init /\ [][SelectNext]_vars

\* The polling loop alone, against a source whose playlist window also
\* shrinks: media playlists of two segments next to those of four.
PollResponses ==
    {[st |-> "2xx", media |-> MediaPlaylist(ms, len, end)] :
        ms \in MediaSequences, len \in Lens \cup {2}, end \in BOOLEAN}

PollNext ==
    \/ \E r \in PollResponses, t \in TitlePatterns : spawn_downloader(r, t)
    \/ \E r \in PollResponses : poll(r)

PollSpec == Init /\ [][PollNext]_vars

\* --------------------------------------------------- eventsub: the claims
\* Every request that can reach the handler: the platform's (signed with the
\* subscription's secret) and the forged ones.
NotificationInputs ==
    {Request(MSG_NOTIFICATION, id, Sig(TRUE, "hex", SecretOf(id)), Event(n, wf), "", "", "posted") :
        id \in SubIds, n \in 1..MaxEvents, wf \in BOOLEAN}
VerificationInputs ==
    {Request(MSG_VERIFICATION, id, Sig(TRUE, "hex", SecretOf(id)), NoEvent, c, "", "posted") :
        id \in SubIds, c \in Challenges}
RevocationInputs ==
    {Request(MSG_REVOCATION, id, Sig(TRUE, "hex", SecretOf(id)), NoEvent, "", st, "posted") :
        id \in SubIds, st \in RevokeStatuses}
ForgedInputs ==
    UNION {{rq \in {Forged(type, id, sig) : type \in MsgTypes, sig \in SigInputs(id)} :
                ~verify_msg(SecretOf(id), rq)} : id \in SubIds}
Inputs == NotificationInputs \cup VerificationInputs \cup RevocationInputs \cup ForgedInputs

\* What a handler leaves unchanged.
Untouched(o) == o.index = index /\ o.status = status /\ o.queue = queue

\* C1: a verification request with a correct HMAC for an indexed subscription
\* in state VerificationPending is answered 200 with the posted challenge as
\* body, and leaves the entry indexed with status Enabled.
C1_VerificationEnables ==
    \A rq \in VerificationInputs :
        (/\ verify_msg(SecretOf(rq.id), rq)
         /\ rq.id \in index
         /\ status[rq.id] = "VerificationPending")
        => (/\ callback(rq).resp = Response(200, rq.challenge)
            /\ rq.id \in callback(rq).index
            /\ callback(rq).status[rq.id] = "Enabled")

C1_Witness ==
    \E id \in index : status[id] = "Enabled" /\ last = Response(200, "xyz")

\* C2: a request of one of the three types with an incorrect HMAC for an
\* indexed subscription is answered 401, and its handler changes neither the
\* index nor a status cell nor a queue (nor drops a queue's Sender, which
\* lives in the index entry).
C2_BadHmacChangesNothing ==
    \A rq \in ForgedInputs :
        rq.id \in index
        => (/\ Untouched(callback(rq))
            /\ \/ callback(rq).resp = Response(401, "")
               \/ callback(rq).cont # {})

ConsumerDropped(id) == id \in index /\ ~ReceiverAlive(id)

\* C3: a correctly signed notification for an indexed, enabled subscription
\* whose consumer has been dropped is answered 410 and removes the entry.
C3_DroppedConsumerGone ==
    \A rq \in NotificationInputs :
        (ConsumerDropped(rq.id) /\ status[rq.id] = "Enabled")
        => (/\ callback(rq).resp = Response(410, "")
            /\ rq.id \notin callback(rq).index)

\* C4: once a callback addressed to a subscription whose consumer has been
\* dropped has been handled (its handler has returned), the subscription is
\* no longer in the index.
C4_DroppedRemovedByNextCallback ==
    \A rq \in Inputs :
        (ConsumerDropped(rq.id) /\ callback(rq).cont = {})
        => rq.id \notin callback(rq).index

RevocationHandled(id) == id \notin index /\ status[id] \in RevokeStatuses

\* C6: once a revocation of a subscription has been handled (its status has
\* been swapped), a recv() on it that finds the queue empty returns Ok(None),
\* whether it was already waiting or is called afterwards.
C6_RevokedRecvReturnsNone ==
    [][\A ch \in Channels :
        (/\ sup[ch].pc \in {"recv", "waiting"}
         /\ RevocationHandled(sup[ch].sub)
         /\ queue[sup[ch].sub] = <<>>
         /\ sup'[ch].pc \notin {"recv", "waiting"})
        => sup'[ch].res = "None"]_vars

InPostingOrder(q) == \A i, j \in 1..Len(q) : i < j => q[i].n < q[j].n

\* C8 as stated: recv() returns the events of a subscription in the order in
\* which the platform posted them.
C8_PostingOrder == \A id \in SubIds : InPostingOrder(received[id])

\* C8 as amended: the events recv() has taken, followed by those still in the
\* queue, are the events of the notifications answered 200, each once, in the
\* order in which their handlers sent them.
C8_SendingOrder ==
    \A id \in SubIds :
        /\ received[id] \o queue[id] = enq[id]
        /\ \A i, j \in 1..Len(enq[id]) : i # j => enq[id][i] # enq[id][j]

C8_Witness ==
    \E id \in SubIds : Len(received[id]) = 2 /\ ~InPostingOrder(received[id])

UnknownInputs ==
    {Request(type, 0, NoSig, NoEvent, "", "", "posted") : type \in {MSG_OTHER, MSG_MISSING}}

\* C9: a request of one of the three types for an id that is not in the
\* index is answered 404 and changes neither the index nor a status cell nor
\* a queue; a request with another or no Message-Type is answered 400.
C9_UnknownIdAndType ==
    /\ \A rq \in Inputs :
           rq.id \notin index
           => (callback(rq) = Answer(404, "") /\ Untouched(callback(rq)))
    /\ \A rq \in UnknownInputs :
           callback(rq) = Answer(400, "") /\ Untouched(callback(rq))

C9_Witness ==
    /\ last = Response(404, "")
    /\ index # {}
    /\ \E id \in SubIds \ index : status[id] \in RevokeStatuses

\* The supervisor's task is scheduled whenever it can run, and a download
\* ends.
SupervisorStep(ch) ==
    \/ \E st \in CreateStatuses : SubscribeRequest(ch, st)
    \/ SubscribeFail(ch)
    \/ RecvStatus(ch)
    \/ RecvEvent(ch)
    \/ RecvClosed(ch)
    \/ \E found \in BOOLEAN : FetchStream(ch, found)
    \/ DownloadDone(ch)

FairSpec == Spec /\ \A ch \in Channels : WF_vars(SupervisorStep(ch))

InReceiveLoop(ch) == sup[ch].pc \in {"recv", "waiting", "fetch", "download"}
SubscribeIssued(ch) == sup[ch].pc \in {"insert", "exited"}

\* C7: when the subscription a supervisor holds in its receive loop (waiting,
\* fetching the stream record or downloading) has been removed from the index
\* by a revocation, the supervisor eventually issues a subscribe request.
C7_RevokedResubscribes ==
    \A ch \in Channels :
        (InReceiveLoop(ch) /\ sup[ch].sub \notin index) ~> SubscribeIssued(ch)

C7_Witness ==
    \E ch \in Channels, id \in SubIds \ index :
        /\ status[id] \in RevokeStatuses
        /\ sup[ch].pc = "insert"
        /\ sup[ch].sub # id
        /\ sup[ch].res \in {"None", "ChannelClosed"}

\* ------------------------------------------------------ helix: the claims
\* A call of send_req that has returned, and one whose first response was 401.
Returned(c) == call[c].pc = "idle" /\ call[c].ret # ""
AtMostTwice(c) == Len(call[c].sent) <= 2 /\ call[c].tokreqs <= 1
Resent(c) ==
    /\ Len(call[c].sent) = 2
    /\ call[c].sent[2].req = call[c].sent[1].req
    /\ call[c].sent[2].auth # call[c].sent[1].auth
    /\ call[c].sent[2].auth = call[c].auth

\* C10 as stated: a call whose first response was 401 has, when it returns,
\* issued exactly one token request and sent the original request a second
\* time, with the new bearer; no call sends more than twice or issues more
\* than one token request.
C10_RefreshAndRetry ==
    \A c \in Callers :
        /\ AtMostTwice(c)
        /\ (Returned(c) /\ call[c].first = "401")
           => (call[c].tokreqs = 1 /\ Resent(c))

\* C10 as amended: a call whose first response was 401 issues exactly one
\* token request; if that request succeeds the call re-sends the original
\* request exactly once, with the bearer the request returned, which has
\* replaced the stored one under the lock; if it fails the call returns the
\* error without sending again and leaves the stored bearer as it was. A
\* call whose first response was not 401 sends once and issues no token
\* request.
C10_RefreshThenRetry ==
    /\ [](\A c \in Callers :
            /\ AtMostTwice(c)
            /\ (Returned(c) /\ call[c].first = "401")
               => /\ call[c].tokreqs = 1
                  /\ IF call[c].ret = "Err(token)"
                     THEN Len(call[c].sent) = 1
                     ELSE Resent(c)
            /\ (Returned(c) /\ call[c].first # "401")
               => (call[c].tokreqs = 0 /\ Len(call[c].sent) = 1))
    /\ [][bearer' # bearer
          => \E c \in Callers :
                 /\ mutex = c
                 /\ call[c].pc = "refresh"
                 /\ call'[c].pc = "resend"
                 /\ call'[c].auth = bearer']_vars

C10_Witness ==
    \E c \in Callers :
        /\ Returned(c)
        /\ call[c].first = "401"
        /\ call[c].ret = "Ok(2xx)"
        /\ Resent(c)
        /\ bearer = call[c].auth

\* C11: send_req returns Ok with a response only when the response's status
\* is 2xx; a call that ends with any other status returns an error.
C11_OkOnlyFor2xx ==
    \A c \in Callers :
        Returned(c) => call[c].ret \in {"Ok(2xx)", "Err(status)", "Err(transfer)", "Err(token)"}

\* C12: a token request is issued, and the stored bearer (with its expiry)
\* replaced, only in a step of a call that has sent once and whose response
\* was 401; while no call has received a 401, no token request is issued and
\* the stored bearer stays as it is.
C12_RefreshOnlyOn401 ==
    [][/\ \A c \in Callers :
              call'[c].tokreqs > call[c].tokreqs
              => /\ call[c].first = "401"
                 /\ Len(call[c].sent) = 1
                 /\ call[c].pc = "refresh"
       /\ (bearer' # bearer \/ issued' # issued)
          => \E c \in Callers :
                 call[c].first = "401" /\ call'[c].tokreqs = call[c].tokreqs + 1
       /\ (\A c \in Callers : call[c].first # "401")
          => (/\ UNCHANGED <<bearer, issued>>
              /\ \A c \in Callers : call'[c].tokreqs <= call[c].tokreqs)]_vars

C12_Witness ==
    /\ issued = 1
    /\ bearer = 1
    /\ \E c, d \in Callers :
           /\ Returned(c) /\ call[c].first = "401" /\ call[c].tokreqs = 1
           /\ Returned(d) /\ call[d].first = "2xx" /\ call[d].tokreqs = 0
           /\ call[d].sent = <<[req |-> call[d].req, auth |-> 1]>>

\* ---------------------------------------------------------- hls: the claims
\* The segments of a sequence of futures or records, and a sequence of
\* segments without its leading run of segments titled "Amazon...".
RECURSIVE DropAds(_)
DropAds(q) ==
    IF q = <<>> THEN <<>>
    ELSE IF TitleOf(Head(q)) = "Amazon" THEN DropAds(Tail(q))
    ELSE q
SegsOf(q) == [j \in 1..Len(q) |-> q[j].seg]
\* The segments the pipeline has taken from the channel so far.
Consumed == SubSeq(emitted, 1, Len(emitted) - Len(chan))
IsPrefix(p, q) == Len(p) <= Len(q) /\ p = SubSeq(q, 1, Len(p))

\* C13: at most 6 segment fetches are in flight, and the segment records of
\* the rewritten playlist are in the order in which the poller emitted their
\* segments, whatever order the fetches end in.
C13_PipelinedInOrder ==
    /\ Len(inflight) <= 6
    /\ IsPrefix(SegsOf(playlist), DropAds(emitted))
    /\ \A j, k \in 1..Len(playlist) :
           j < k => playlist[j].uri.name[WIDTH] < playlist[k].uri.name[WIDTH]

C13_Witness ==
    /\ Len(inflight) = 6
    /\ inflight[1].st = "fetching"
    /\ inflight[6].st = "Ok"
    /\ chan # <<>>
    /\ playlist # <<>>

\* A download that has ended, and the segment files it left on disk.
Ended == dl \in {"Ok", "Err"}
FileUris == {f.uri : f \in files}
\* The number of leading segments the ad filter dropped.
Dropped(q) == Len(q) - Len(DropAds(q))

\* C14: when a download has ended, the number of distinct segment files on
\* disk equals the number of segment records in the rewritten playlist.
C14_FilesEqualRecords ==
    Ended => Cardinality(FileUris) = Len(playlist)

\* C15: the records of the rewritten playlist are the downloaded segments in
\* order, and the j-th of them (from 0) has the file name <j padded with
\* zeros to 5 digits>.ts in the stream's directory, where its file is.
C15_ConsecutiveNumbers ==
    \A j \in 1..Len(playlist) :
        /\ playlist[j].uri = [dir |-> "stream_name", name |-> <<0, 0, 0, 0, j - 1>>, ext |-> "ts"]
        /\ playlist[j].uri \in FileUris
        /\ playlist[j].seg = DropAds(emitted)[j]

C15_Witness ==
    /\ dl = "Ok"
    /\ Len(playlist) >= 3
    /\ TitleOf(emitted[1]) = "Amazon"
    /\ Cardinality(FileUris) = Len(playlist)

\* C16 as stated: the number in a record's file name is the absolute index of
\* its segment in the source stream.
C16_AbsoluteNumbers ==
    \A j \in 1..Len(playlist) :
        playlist[j].uri.name = Pad(Digits(playlist[j].seg.idx), WIDTH)

\* C16 as amended: the number in a record's file name is the number of
\* segments that passed the ad filter before its segment: the j-th record
\* holds the (j + dropped)-th emitted segment and is numbered j - 1, so the
\* numbers of dropped segments are not left out.
C16_OrdinalNumbers ==
    \A j \in 1..Len(playlist) :
        /\ playlist[j].seg = emitted[j + Dropped(emitted)]
        /\ playlist[j].uri.name = Pad(Digits(j - 1), WIDTH)

\* the first playlist has media_sequence 0 and the titles Amazon, Amazon,
\* live, live: the records are those of the segments 2 and 3, numbered 0, 1
C16_Witness ==
    /\ Len(emitted) >= 4
    /\ emitted[1].idx = 0
    /\ TitleOf(emitted[1]) = "Amazon" /\ TitleOf(emitted[2]) = "Amazon"
    /\ Len(playlist) >= 2
    /\ playlist[1].seg.idx = 2 /\ playlist[1].uri.name = <<0, 0, 0, 0, 0>>
    /\ playlist[2].seg.idx = 3 /\ playlist[2].uri.name = <<0, 0, 0, 0, 1>>

\* C17: the segments the pipeline downloads are the segments taken from the
\* channel without the leading run of those titled "Amazon..."; a segment
\* without a title ends the run, and after the run every segment is
\* downloaded and written, whatever its title.
C17_LeadingAdsOnly ==
    /\ dl = "run" => SegsOf(playlist) \o SegsOf(inflight) = DropAds(Consumed)
    /\ IsPrefix(SegsOf(playlist), DropAds(emitted))
    /\ armed <=> DropAds(Consumed) # <<>>

C17_Witness ==
    /\ Len(playlist) >= 5
    /\ TitleOf(playlist[1].seg) = "none"
    /\ \E j \in 1..Len(playlist) : TitleOf(playlist[j].seg) = "Amazon"

\* The segments a step appended to the poller's output.
Sent == SubSeq(emitted', Len(emitted) + 1, Len(emitted'))
\* The step is an iteration of the polling loop on the response r that parsed
\* the playlist and delivered what it had to send.
Processed(r) ==
    /\ hpc = "poll"
    /\ fetch_media(r) = "Ok"
    /\ poll(r)
    /\ hpc' # "unsent"
\* What the claim says of an iteration on the playlist media.
Advanced(media) ==
    /\ pos' = media.media_sequence + Len(media.segments)
    /\ media.media_sequence > pos =>
        /\ Len(Sent) = Len(media.segments)
        /\ \A n \in 1..Len(Sent) :
            /\ Sent[n].idx = media.segments[n].idx
            /\ Sent[n].disc = (n = 1)
    /\ media.media_sequence <= pos =>
        \A n \in 1..Len(Sent) : ~Sent[n].disc

\* C18 as stated: every iteration of the polling loop that fetched a playlist
\* marks its first segment and skips none when media_sequence > pos, marks
\* none otherwise, and leaves pos = media_sequence + number of segments.
C18_CursorEveryPlaylist ==
    [][\A r \in MediaResponses : Processed(r) => Advanced(r.media)]_vars

\* C18 as amended: the same for every iteration that fetched a playlist with
\* at least one segment; an iteration that fetched a playlist without
\* segments changes neither pos nor the channel, whatever its media_sequence
\* and its end_list are.
C18_CursorNonEmptyPlaylist ==
    [][\A r \in MediaResponses : Processed(r) =>
          IF r.media.segments # <<>>
          THEN Advanced(r.media)
          ELSE UNCHANGED <<pos, chan, emitted, closed, hpc>>]_vars

\* a playlist of four segments was followed by one that starts after a gap:
\* its first segment is marked and pos is past its last segment
C18_Witness ==
    /\ Len(emitted) = 8
    /\ emitted[4].idx + 1 < emitted[5].idx
    /\ emitted[5].disc
    /\ \A n \in 1..8 : n # 5 => ~emitted[n].disc
    /\ pos = emitted[5].idx + 4

\* The step is a fetch of the media playlist, the first one or one of the
\* polling loop, on the response r.
Fetched(r) ==
    \/ hpc = "first" /\ \E t \in TitlePatterns : spawn_downloader(r, t)
    \/ hpc = "poll" /\ poll(r)

\* C19: a fetch that received a playlist with end_list ends the polling (the
\* poller fetches no more and the channel is closed); the end marker is
\* written once, by the step that ends the download, and no segment record
\* is written after it.
C19_EndListStopsPolling ==
    [][/\ \A r \in MediaResponses :
             (fetch_media(r) = "Ok" /\ r.media.end_list /\ Fetched(r))
                 => (hpc' # "poll" /\ closed')
       /\ endlist' # endlist => (endlist = 0 /\ endlist' = 1 /\ dl' = "Ok")
       /\ playlist' # playlist => endlist = 0]_vars

\* The file that holds the segment of a record.
FileOf(rec) == CHOOSE f \in files' : f.uri = rec.uri

\* C20: a final response without a 2xx status and a failed request end the
\* download with an error: no segment file and no record holds anything of
\* such a response, a download whose playlist request failed does not end
\* with success, and no record is written at or after the number of a failed
\* segment.
C20_NonSuccessAborts ==
    [][/\ \A f \in files' : f.holds \in {"2xx", "partial"}
       /\ \A j \in 1..Len(playlist') :
             /\ \E f \in files' : f.uri = playlist'[j].uri
             /\ FileOf(playlist'[j]).holds = "2xx"
             /\ \A k \in 1..Len(inflight) :
                   inflight[k].st = "Err" => j - 1 < inflight[k].i
       /\ (hpc = "failed" /\ dl = "run") => dl' # "Ok"
       /\ (hpc = "failed" /\ dl = "start") => dl' = "Err"]_vars

\* ------------------------------------------ main: the claims on listen
\* The listen task of u is inside its receive loop.
Receiving(u) == listener[u].pc \in {"recv", "get_streams", "spawn", "join"}

\* C21: a listen task returns only from a failed subscribe, and the step
\* that ends it changes no other user's listen task or download; from a
\* stream fetch, a spawn and a download, failed or not, the task goes on
\* inside the receive loop, without a new subscribe.
C21_OnlySubscribeFailureEnds ==
    [][\A u \in Users :
          /\ (listener[u].pc # "returned" /\ listener'[u].pc = "returned") =>
                /\ listener[u].pc = "subscribe"
                /\ \A v \in Users \ {u} :
                      listener'[v] = listener[v] /\ task'[v] = task[v]
          /\ listener[u].pc \in {"get_streams", "spawn", "join"} =>
                Receiving(u)']_vars

\* one listen task has returned, after it gave up a stream fetch that found
\* nothing twelve times; the other one awaits a download that has failed
C21_Witness ==
    \E u, v \in Users :
        /\ listener[u].pc = "returned"
        /\ listener[u].count = GET_STREAMS_TRIES
        /\ listener[v].pc = "join"
        /\ task[v].pc = "end"
        /\ task[v].ret = "Err"

\* The playlist pollers of u that run, and whether u's chat writer runs.
LivePollers(u) == pollers[u] + (IF task[u].poll THEN 1 ELSE 0)
WriterRuns(u) == writer[u] \in {"start", "loop"}

\* C22: a user has at most one playlist poller and one chat writer at any
\* time, and while its listen task is not awaiting a download (it takes the
\* next event, fetches the stream or spawns) it has none: both ended before
\* the download task did.
C22_JoinedBeforeNextEvent ==
    \A u \in Users :
        /\ LivePollers(u) <= 1
        /\ listener[u].pc # "join" => (LivePollers(u) = 0 /\ ~WriterRuns(u))

\* --------------------------------------------- irc: the claims on chat
\* C23 as stated: a queue never holds more than 16 messages, and a step puts
\* a message into the queue of u only while the open-flag of u is true and
\* the queue holds fewer than 16.
C23_EnqueuedOnlyWhileOpen ==
    [][\A u \in Users :
          /\ qlen'[u] <= 16
          /\ qlen'[u] > qlen[u] => (is_open[u] /\ qlen[u] < 16)]_vars

\* C23 as amended: a queue never holds more than 16 messages; a message is
\* put into the queue of u only by a try_send that has found the open-flag
\* of u true, and only if the queue holds fewer than 16, otherwise the
\* message is lost (the writer may have reset the flag since try_send looked
\* at it); the IRC task can always take its step, whatever the queues hold.
C23_EnqueuedOnlyIfFoundOpen ==
    [][/\ \A u \in Users :
             /\ qlen'[u] <= 16
             /\ qlen'[u] > qlen[u] =>
                   (irc.pc = "send" /\ irc.to = u /\ qlen[u] < 16)
             /\ (irc.pc = "handle" /\ irc_message(u)) =>
                   irc'.pc = (IF is_open[u] THEN "send" ELSE "handle")
       /\ (irc.pc = "send" /\ irc'.pc # "send" /\ qlen[irc.to] = 16) => qlen' = qlen
       /\ irc.pc = "send" => ENABLED try_send
       /\ irc.pc = "handle" => \A u \in Users : ENABLED irc_message(u)]_vars

\* the queue of u is full while its writer runs, and the IRC task is about
\* to deliver a message to another user, whose queue is neither
C23_Witness ==
    \E u, v \in Users :
        /\ qlen[u] = 16
        /\ writer[u] = "loop"
        /\ irc.pc = "send"
        /\ irc.to = v
        /\ v # u
        /\ qlen[v] \in 1..15

\* C24: the IRC task ends only at Quit or Eof: it never leaves its loop
\* after failures with the program running on without a chat connection,
\* and it never counts more than 10 failures.
C24_NeverWithoutChat ==
    /\ irc.pc # "exhausted"
    /\ irc.try_count <= 10

\* The scheduling the executors give: a chat writer that can take a turn, a
\* download task that can send the cancellation or join its writer, and the
\* IRC task when it can deliver, are run.
FairChatSpec ==
    /\ ChatSpec
    /\ \A u \in Users :
          /\ WF_vars(\E ok \in BOOLEAN : chat_open(u, ok))
          /\ WF_vars(\E ok \in BOOLEAN : chat_step(u, ok))
          /\ WF_vars(dl_notify(u))
          /\ WF_vars(dl_await(u))
    /\ WF_vars(try_send)

\* C25: once the cancellation of the chat writer of u has been sent, the
\* writer eventually returns, also when messages keep arriving.
C25_CancelledWriterReturns ==
    \A u \in Users : NotiSent(u) ~> writer[u] \in {"Ok", "Err"}


\* C26: when wipe has returned Ok (no subscription was created meanwhile),
\* the platform holds no subscription of the application any more, so that a
\* listing returns none: wipe reports success only if every subscription was
\* deleted.
C26_WipedMeansNone == wp.pc = "Ok" => remote = {}


\* C27: every create_dedup_file or create_dedup_dir call that has returned
\* a path created that path itself: it did not exist before the call, and no
\* other call, concurrent or earlier, has created or returned it.
C27_ReturnsOwnNewPath ==
    \A c \in Creators :
        (fsc[c].op \in {"file", "dir"} /\ fsc[c].ret = "Ok") =>
            /\ disk[fsc[c].path] = c
            /\ \A d \in Creators \ {c} :
                   (fsc[d].op = fsc[c].op /\ fsc[d].ret = "Ok") =>
                       fsc[d].path # fsc[c].path


\* C28: when move_dir has returned a directory, that directory is one the
\* call created itself and holds every file of the working directory, and a
\* destination that existed before still holds exactly its own files: none
\* was replaced and no new file was placed in it.
C28_MovedIntoOwnDir ==
    \A c \in Creators :
        (fsc[c].op = "move" /\ fsc[c].ret = "Ok") =>
            /\ disk[fsc[c].path] = c
            /\ WorkDir(c) \subseteq content[fsc[c].path]
            /\ \A n \in Names :
                   (n.kind = "dir" /\ disk[n] = "old") =>
                       content[n] = {File("chat.log", "old")}


\* A send call whose request (first or retried) is with the platform.
InFlight(c) == call[c].pc \in {"send", "resend"}

\* C29: the broker's mutex is held by a send call from attaching the headers
\* until its request, and the refresh and retry if any, has completed, so
\* that requests through the broker are serialised: a call whose request is
\* in flight holds the mutex, and no two calls have a request in flight.
C29_BrokerSerialises ==
    \A c \in Callers :
        InFlight(c) =>
            /\ mutex = c
            /\ \A d \in Callers \ {c} : ~InFlight(d)

\* C30: every handler of /callback returns a response: none is left waiting
\* for the write lock of an index shard on which it holds its own read
\* guard, and the notification handler completes the removal of the entry
\* after a failed send.
C30_HandlersRespond == \A rq \in reqs : rq.pc # "blocked"


\* C31: a verification callback that the platform sends for a subscription
\* it has created in answer to subscribe() finds the subscription's entry in
\* the index: it is not answered 404, also while subscribe() has not yet
\* come to its insert.
C31_VerificationFindsEntry ==
    \A rq \in VerificationInputs :
        (\E ch \in Channels : sup[ch].sub = rq.id /\ sup[ch].pc = "insert")
            => callback(rq).resp # Response(404, "")


\* C32: whenever no download task is active for a channel, the channel's
\* chat open-flag is false: a chat writer that has set the flag resets it
\* on every path on which it ends.
C32_ClosedWhenIdle == \A u \in Users : task[u].pc = "none" => ~is_open[u]


\* C33: no acknowledged event is lost: recv() reports the terminal state of
\* a subscription (None) only when every event that was answered 200 has
\* been returned, so the events that are in the queue when a revocation is
\* handled are returned first.
C33_QueuedReturnedBeforeNone ==
    [][\A ch \in Channels :
          (sup[ch].pc = "recv" /\ sup'[ch].pc = "subscribe" /\ sup'[ch].res = "None")
              => (/\ queue[sup[ch].sub] = <<>>
                  /\ received[sup[ch].sub] = enq[sup[ch].sub])]_vars


\* The playlists fetched so far had a non-decreasing media_sequence.
NonDecreasing(s) == \A i \in 1..(Len(s) - 1) : s[i] <= s[i + 1]

\* C34: as long as the media_sequence of the fetched playlists does not
\* decrease, the cursor pos never decreases and no segment of the source is
\* sent to the channel a second time, also when a playlist is shorter than
\* an earlier one or ends before pos.
C34_CursorNeverBack ==
    [][NonDecreasing(seqs') =>
          /\ pos' >= pos
          /\ \A i, j \in 1..Len(emitted') :
                 i # j => emitted'[i].idx # emitted'[j].idx]_vars


\* C35: the result of the stream capture does not depend on the chat
\* writer: when the HLS download has returned its stream data, _dl returns
\* that result (which the data file then lists and the download task
\* reports), also when the chat writer has failed or has ended before the
\* cancellation was sent.
C35_StreamResultKept ==
    [][\A u \in Users :
          (/\ task[u].pc \in {"notify", "await"}
           /\ task[u].res = "Some"
           /\ task'[u].pc = "finalize")
              => task'[u].res = "Some"]_vars


\* C36: a correctly signed notification for an indexed subscription whose
\* status is not Enabled is answered 409 with that status, enqueues nothing
\* and changes no status; a correctly signed verification for an indexed
\* subscription whose status is not VerificationPending is answered 409 with
\* that status and changes nothing either.
C36_NotEnabledRefused ==
    /\ \A rq \in NotificationInputs :
           (rq.id \in index /\ status[rq.id] # "Enabled")
           => (/\ callback(rq).resp = Response(409, status[rq.id])
               /\ Untouched(callback(rq)))
    /\ \A rq \in VerificationInputs :
           (rq.id \in index /\ status[rq.id] # "VerificationPending")
           => (/\ callback(rq).resp = Response(409, status[rq.id])
               /\ Untouched(callback(rq)))

\* a notification for a subscription that awaits its verification has been
\* answered 409: nothing was enqueued and the status is as it was
C36_Witness ==
    \E id \in index :
        /\ status[id] = "VerificationPending"
        /\ last = Response(409, "VerificationPending")
        /\ nposted > 0
        /\ enq[id] = <<>>
        /\ queue[id] = <<>>


Matches(f, alts) ==
    IF f = BEST THEN alts # <<>>
    ELSE \E i \in 1..Len(alts) : starts_with(alts[i], f)

\* C38: once the master playlist is parsed, the choice is the first tag of
\* the format list that matches and, for it, the first alternative if the
\* tag is "best" and else the first alternative whose name starts with the
\* tag; if no tag matches, download returns None and neither the playlist
\* file nor the segment directory is created.
C38_FirstMatchingTag ==
    (hd.pc # "start" /\ hd.ret # "Err(master)") =>
        IF \A k \in 1..Len(hd.format) : ~Matches(hd.format[k], hd.alts)
        THEN /\ hd.pc = "done"
             /\ hd.ret = "None"
             /\ ~hd.mediafile /\ ~hd.segdir
        ELSE /\ hd.sel.f \in 1..Len(hd.format)
             /\ Matches(hd.format[hd.sel.f], hd.alts)
             /\ \A j \in 1..(hd.sel.f - 1) : ~Matches(hd.format[j], hd.alts)
             /\ hd.sel.alt \in 1..Len(hd.alts)
             /\ IF hd.format[hd.sel.f] = BEST
                THEN hd.sel.alt = 1
                ELSE /\ starts_with(hd.alts[hd.sel.alt], hd.format[hd.sel.f])
                     /\ \A j \in 1..(hd.sel.alt - 1) :
                            ~starts_with(hd.alts[j], hd.format[hd.sel.f])
             /\ hd.ret # "None"

\* the format list "720p,best" against the alternatives audio, 720p60: the
\* first tag wins with the second alternative, and the stream was downloaded
C38_Witness ==
    /\ hd.format = <<<<"7", "2", "0", "p">>, BEST>>
    /\ hd.alts = <<<<"a", "u", "d", "i", "o">>, <<"7", "2", "0", "p", "6", "0">>>>
    /\ hd.sel = Choice(1, 2)
    /\ hd.ret = "Some"
    /\ hd.mediafile



\* C39: in the stream fetch loop of an event the count of empty answers
\* stays below twelve, so a twelfth fetch is the last one; a fetch that
\* leaves the listen task in the loop has raised the count by one, which
\* bounds the loop; and when the loop is given up (twelfth empty answer or
\* a failed fetch) the listen task is back at recv and the user has no
\* download task, before and after.
C39_GivesUpAfterTwelve ==
    [][\A u \in Users :
          (listener[u].pc = "get_streams" /\ listener'[u] # listener[u]) =>
              /\ listener[u].count < GET_STREAMS_TRIES
              /\ listener'[u].pc \in {"get_streams", "recv", "spawn"}
              /\ listener'[u].pc = "get_streams" =>
                    /\ listener'[u].count = listener[u].count + 1
                    /\ listener'[u].count < GET_STREAMS_TRIES
              /\ listener'[u].pc = "recv" =>
                    /\ task[u] = NoTask
                    /\ task'[u] = NoTask]_vars

\* a listen task waits for the next event after twelve empty answers to its
\* first event, and no download task exists for its user
C39_Witness ==
    \E u \in Users :
        /\ listener[u].pc = "recv"
        /\ listener[u].count = GET_STREAMS_TRIES
        /\ nevents = 1
        /\ task[u] = NoTask
        /\ pollers[u] = 0



\* C40: a create_dedup_dir call that runs alone (no other call before or
\* beside it) and has returned a path created that path, which did not
\* exist before, and every smaller suffix of the target, the target itself
\* included, was taken already; this for the nested and for the
\* one-component target.
C40_SequentialDedupDir ==
    \A c \in Creators :
        (/\ fsc[c].op = "dir"
         /\ fsc[c].ret = "Ok"
         /\ \A d \in Creators \ {c} : fsc[d] = NoOp) =>
            /\ disk[fsc[c].path] = c
            /\ \A j \in 0..(fsc[c].path.i - 1) :
                   disk[Name("dir", fsc[c].t, j)] = "old"

============================================================================
